---------------------------- MODULE Spec2Model ----------------------------
(***************************************************************************)
(* Model of the book-processor core.                                       *)
(* processors/organizer.py:                                                *)
(*   - ChapterOrganizer.parse_chapter_locations   (boundary derivation)    *)
(*   - ChapterOrganizer.process_chapter           (chapter text assembly)  *)
(*   - ChapterOrganizer.process_chapters          (the loop over chapters) *)
(*   - CombinedChapterOrganizer.optimize_chapter_groups (partitioner)      *)
(*   - CombinedChapterOrganizer.create_combined_file    (bundle writer)    *)
(* utils/validation.py: validate_page_numbers                              *)
(* utils/file_utils.py: create_project_structure                           *)
(* processors/ocr.py:   OCRProcessor.process_images_parallel               *)
(* main.py:             prompt_for_chapter_pages; main, steps 4 to 6       *)
(* Each operation has its own specification (SpecParse, SpecAssemble,      *)
(* SpecProcess, SpecGroups, SpecCombine, SpecValidate, SpecProject, SpecOcr,*)
(* SpecPrompt); SpecProcessGroups runs process_chapters and then           *)
(* optimize_chapter_groups, and SpecMain the steps of main from the chapter*)
(* files to the archive. The variables of the operations that do not run in*)
(* a specification keep their idle values. A variable stands for the       *)
(* argument or local of its name in each operation that has one: chapters, *)
(* i, processed_chapters, text_dir, outfile, result, max_page, page_offset.*)
(***************************************************************************)
EXTENDS Integers, Sequences, FiniteSets, TLC

VARIABLES
    pc,              \* position in the running operation
    arg_starts,      \* parse_chapter_locations: the chapter_starts argument
    chapter_starts,  \* ... the local chapter_starts (rebound to sorted(...))
    chapter_titles,  \* ... the chapter_titles argument (None or a list)
    max_page,        \* ... max_page (0 stands for None / 0, both falsy)
    page_offset,     \* ... page_offset
    chapters,        \* ... the list being built and returned
    i,               \* ... the loop index of "for i, start_page in enumerate"
    processed_chapters,   \* optimize_chapter_groups: the chapters argument
    max_combined_files,   \* ... self.max_combined_files
    prefix_sum,           \* ... the prefix sums of char_count
    dp,                   \* ... dp[i][j], indexed from 0 as in the code
    partition,            \* ... partition[i][j], the recorded cut
    groups,               \* ... the groups rebuilt by the backward walk
    current,              \* ... the walk's position in the chapter list
    remaining,            \* ... the groups the walk has still to produce
    formatted_groups,     \* ... the returned list of group dictionaries
    chapter,         \* process_chapter: the chapter argument
    text_dir,        \* ... the page files of text_dir the chapter can open
    outfile,         \* ... what has been written to the chapter file
    char_count,      \* ... the running character count
    page_num,        \* ... the loop variable of "for page_num in range"
    result,          \* ... the returned tuple
    failed_chapters, \* process_chapters: the (chapter, message) pairs of the failures
    output_dir,      \* ... the chapter files of output_dir that cannot be created
    group,           \* create_combined_file: the group argument
    chapters_dir,    \* ... the chapter files of chapters_dir the bundle can open
    group_chapters,  \* ... the member chapters, sorted by number
    group_pos,       \* ... the position of "for chapter in group_chapters"
    page_numbers,    \* validate_page_numbers: the page_numbers argument
    max_pages,       \* ... the max_pages argument
    parsed_numbers,  \* ... the list of the pages parsed so far
    fs,              \* create_project_structure: what base_dir holds under each name
    fs_before,       \* ... what it held when the call began
    project_dir,     \* ... the name being tried
    counter,         \* ... the suffix of the next name
    dirs,            \* ... the returned dictionary
    has_tesseract,   \* OCRProcessor: self.has_tesseract
    image_paths,     \* process_images_parallel: the image_paths argument
    max_workers,     \* ... max_workers (None is replaced by os.cpu_count() or 1)
    pairs,           \* ... the (image, output path) pairs
    batches,         \* ... the batches handed to the workers
    workers,         \* ... the progress of each batch's worker process
    processed_files, \* ... the output files collected from the futures
    failed_files,    \* ... the failures collected from the futures
    page_input,      \* prompt_for_chapter_pages: the line the operator has entered
    int_pages,       \* ... the start pages parsed from it
    chapter_pages,   \* main: the start pages the prompt has returned
    main_last_chapter_end,  \* ... last_chapter_end, the last page of the final chapter
    chapter_descriptions, \* ... the descriptions the operator has entered
    stdout,          \* ... the lines printed so far
    main_success,    \* ... success, the flag the last step has returned
    output_files,    \* ... the (group, path) pairs of the bundles created
    index_path,      \* ... the path of the index file
    instructions_path,    \* ... the path of the instructions file
    files_to_include,     \* ... the files put in the archive
    zip_path,        \* ... the path of the archive created
    exit_code        \* ... the value main has returned

parseVars == <<arg_starts, chapter_starts, chapter_titles, max_page,
               page_offset, chapters, i>>
groupVars == <<processed_chapters, max_combined_files, prefix_sum, dp, partition,
               groups, current, remaining, formatted_groups>>
asmVars == <<chapter, text_dir, outfile, char_count, page_num, result>>
procVars == <<failed_chapters, output_dir>>
combVars == <<group, chapters_dir, group_chapters, group_pos>>
valVars == <<page_numbers, max_pages, parsed_numbers>>
dirVars == <<fs, fs_before, project_dir, counter, dirs>>
ocrVars == <<has_tesseract, image_paths, max_workers, pairs, batches, workers,
            processed_files, failed_files>>
mainVars == <<page_input, int_pages, chapter_pages, main_last_chapter_end,
             chapter_descriptions, stdout, main_success, output_files, index_path,
             instructions_path, files_to_include, zip_path, exit_code>>
utilVars == <<valVars, dirVars, ocrVars, mainVars>>
vars == <<pc, parseVars, groupVars, asmVars, procVars, combVars, utilVars>>

(***************************************************************************)
(* Bounds of the model.                                                    *)
(***************************************************************************)
MaxPage == 5
MaxStarts == 3
MaxOffset == 2

\* Python's None
None == "None"

\* the values the variables of an operation keep while another one runs
IdleParse ==
    /\ arg_starts = <<>>
    /\ chapter_starts = <<>>
    /\ chapter_titles = None
    /\ max_page = 0
    /\ page_offset = 0
    /\ chapters = <<>>
    /\ i = 0

IdleGroups ==
    /\ processed_chapters = <<>>
    /\ max_combined_files = 0
    /\ prefix_sum = <<>>
    /\ dp = <<>>
    /\ partition = <<>>
    /\ groups = <<>>
    /\ current = 0
    /\ remaining = 0
    /\ formatted_groups = <<>>

IdleAssemble ==
    /\ chapter = None
    /\ text_dir = <<>>
    /\ outfile = <<>>
    /\ char_count = 0
    /\ page_num = 0
    /\ result = None

IdleProcess ==
    /\ failed_chapters = <<>>
    /\ output_dir = {}

IdleCombine ==
    /\ group = None
    /\ chapters_dir = <<>>
    /\ group_chapters = <<>>
    /\ group_pos = 0

IdleValidate ==
    /\ page_numbers = <<>>
    /\ max_pages = 0
    /\ parsed_numbers = <<>>

IdleProject ==
    /\ fs = <<>>
    /\ fs_before = <<>>
    /\ project_dir = 0
    /\ counter = 0
    /\ dirs = None

IdleOcr ==
    /\ has_tesseract = FALSE
    /\ image_paths = <<>>
    /\ max_workers = 0
    /\ pairs = <<>>
    /\ batches = <<>>
    /\ workers = <<>>
    /\ processed_files = <<>>
    /\ failed_files = <<>>

IdleMain ==
    /\ page_input = <<>>
    /\ int_pages = <<>>
    /\ chapter_pages = <<>>
    /\ main_last_chapter_end = 0
    /\ chapter_descriptions = <<>>
    /\ stdout = <<>>
    /\ main_success = FALSE
    /\ output_files = <<>>
    /\ index_path = None
    /\ instructions_path = None
    /\ files_to_include = <<>>
    /\ zip_path = None
    /\ exit_code = None

IdleUtil == IdleValidate /\ IdleProject /\ IdleOcr /\ IdleMain

(***************************************************************************)
(* Helpers.                                                                *)
(***************************************************************************)
RECURSIVE SeqsUpTo(_, _)
\* all sequences over S of length 0..n
SeqsUpTo(S, n) ==
    IF n = 0 THEN {<<>>}
    ELSE LET shorter == SeqsUpTo(S, n - 1)
         IN shorter \cup {Append(s, x) : s \in {t \in shorter : Len(t) = n - 1}, x \in S}

RECURSIVE Insert(_, _)
\* insert x into the ascending list s, after the elements equal to it (stable)
Insert(s, x) ==
    IF s = <<>> THEN <<x>>
    ELSE IF x < Head(s) THEN <<x>> \o s
    ELSE <<Head(s)>> \o Insert(Tail(s), x)

RECURSIVE sorted(_)
\* Python's sorted() on a list of integers
sorted(s) ==
    IF s = <<>> THEN <<>>
    ELSE Insert(sorted(SubSeq(s, 1, Len(s) - 1)), s[Len(s)])

\* the last element of a list replaced by its update: chapters[-1][...] = ...
SetLast(s, r) == [s EXCEPT ![Len(s)] = r]

(***************************************************************************)
(* parse_chapter_locations                                                 *)
(***************************************************************************)
\* a slip in lines 53-55: the front matter's book start page is always 1
FrontMatterBookStartOne(cs, off) ==
    [number |-> 0,
     title |-> "Front Matter",
     start_page |-> 1,
     book_start_page |-> 1,
     end_page |-> cs[1] - 1,
     book_end_page |-> IF off > 0 THEN (cs[1] - 1) - off ELSE cs[1] - 1,
     page_offset |-> off]

\* the front matter record of lines 49-63, for the sorted starts cs
FrontMatter(cs, off) ==
    [number |-> 0,
     title |-> "Front Matter",
     start_page |-> 1,
     book_start_page |-> IF off <= 0 THEN 1 ELSE 1 - off,
     end_page |-> cs[1] - 1,
     book_end_page |-> IF off > 0 THEN (cs[1] - 1) - off ELSE cs[1] - 1,
     page_offset |-> off]

\* a slip in lines 76-79: an empty supplied title is taken as it is
ChapterTitleKeepsEmpty(titles, idx) ==
    IF titles # None /\ titles # <<>> /\ idx < Len(titles)
    THEN titles[idx + 1]
    ELSE "Chapter " \o ToString(idx + 1)

\* the title of lines 76-79; idx is the 0-based index i
ChapterTitle(titles, idx) ==
    IF titles # None /\ titles # <<>> /\ idx < Len(titles) /\ titles[idx + 1] # ""
    THEN titles[idx + 1]
    ELSE "Chapter " \o ToString(idx + 1)

\* the chapter record of lines 68-90; idx is the 0-based index i
NewChapter(cs, titles, off, idx) ==
    LET start_page == cs[idx + 1]
    IN [number |-> idx + 1,
        title |-> ChapterTitle(titles, idx),
        start_page |-> start_page,
        book_start_page |-> IF off > 0 THEN start_page - off ELSE start_page,
        end_page |-> None,
        book_end_page |-> None,
        page_offset |-> off]

\* a slip in lines 93-97: the previous chapter ends on the next start page
ClosePreviousAtStart(prev, start_page, off) ==
    LET book_start_page == IF off > 0 THEN start_page - off ELSE start_page
    IN [prev EXCEPT !.end_page = start_page,
                    !.book_end_page = IF off > 0 THEN book_start_page
                                      ELSE start_page]

\* lines 93-97: the previous record closed by the next start page
ClosePrevious(prev, start_page, off) ==
    LET book_start_page == IF off > 0 THEN start_page - off ELSE start_page
    IN [prev EXCEPT !.end_page = start_page - 1,
                    !.book_end_page = IF off > 0 THEN book_start_page - 1
                                      ELSE start_page - 1]

\* a slip in line 103: no page is left for the back matter
LastChapterEndAtMax(maxp) == maxp

\* line 103: the last chapter ends one page before max_page
LastChapterEnd(maxp) == maxp - 1

\* a slip in lines 104-107: the offset is not applied to the book end page
CloseLastPhysicalOnly(last, last_chapter_end, off) ==
    [last EXCEPT !.end_page = last_chapter_end,
                 !.book_end_page = last_chapter_end]

\* lines 104-107: the last record closed at last_chapter_end
CloseLast(last, last_chapter_end, off) ==
    [last EXCEPT !.end_page = last_chapter_end,
                 !.book_end_page = IF off > 0 THEN last_chapter_end - off
                                   ELSE last_chapter_end]

\* a slip in line 112: the back matter takes the last chapter's number
BackMatterSameNumber(n, last_chapter_end, maxp, off) ==
    [number |-> n,
     title |-> "Back Matter",
     start_page |-> last_chapter_end + 1,
     book_start_page |-> IF off > 0 THEN (last_chapter_end + 1) - off
                         ELSE last_chapter_end + 1,
     end_page |-> maxp,
     book_end_page |-> IF off > 0 THEN maxp - off ELSE maxp,
     page_offset |-> off]

\* the back matter record of lines 111-125
BackMatter(n, last_chapter_end, maxp, off) ==
    [number |-> n + 1,
     title |-> "Back Matter",
     start_page |-> last_chapter_end + 1,
     book_start_page |-> IF off > 0 THEN (last_chapter_end + 1) - off
                         ELSE last_chapter_end + 1,
     end_page |-> maxp,
     book_end_page |-> IF off > 0 THEN maxp - off ELSE maxp,
     page_offset |-> off]

TitleChoices ==
    {None, <<>>, <<"Intro">>, <<"", "Main">>, <<"Intro", "Main", "Coda", "Extra">>}

\* the calls of the documented scenarios and of tests/test_organizer.py
ParseScenarios ==
    <<[starts |-> <<1, 10, 25>>, titles |-> None, max_page |-> 30, offset |-> 0],
      [starts |-> <<1, 10>>, titles |-> <<"Intro", "Main">>, max_page |-> 20, offset |-> 0],
      [starts |-> <<5, 15>>, titles |-> None, max_page |-> 20, offset |-> 4]>>

InitParse ==
    /\ pc = "parse_start"
    /\ \/ /\ arg_starts \in SeqsUpTo(1..MaxPage, MaxStarts)
          /\ chapter_titles \in TitleChoices
          /\ max_page \in 0..MaxPage
          /\ page_offset \in (0 - 1)..MaxOffset
       \/ \E n \in DOMAIN ParseScenarios :
             /\ arg_starts = ParseScenarios[n].starts
             /\ chapter_titles = ParseScenarios[n].titles
             /\ max_page = ParseScenarios[n].max_page
             /\ page_offset = ParseScenarios[n].offset
    /\ chapter_starts = arg_starts
    /\ chapters = <<>>
    /\ i = 0
    /\ IdleGroups
    /\ IdleAssemble
    /\ IdleProcess
    /\ IdleCombine
    /\ IdleUtil

\* lines 39-40 left out: sorted([])[0] of line 48 raises IndexError
ParseEmptyRaises ==
    /\ pc = "parse_start"
    /\ chapter_starts = <<>>
    /\ pc' = "parse_raised"
    /\ UNCHANGED <<parseVars, groupVars, asmVars, procVars, combVars, utilVars>>

\* lines 39-40: "if not chapter_starts: return []"
ParseEmpty ==
    /\ pc = "parse_start"
    /\ chapter_starts = <<>>
    /\ chapters' = <<>>
    /\ pc' = "parse_done"
    /\ UNCHANGED <<arg_starts, chapter_starts, chapter_titles, max_page, page_offset, i, groupVars, asmVars, procVars, combVars, utilVars>>

\* lines 42-64: sort, then the front matter when the first start is > 1
ParseFront ==
    /\ pc = "parse_start"
    /\ chapter_starts # <<>>
    /\ LET cs == sorted(chapter_starts)
       IN /\ chapter_starts' = cs
          /\ chapters' = IF cs[1] > 1 THEN <<FrontMatter(cs, page_offset)>> ELSE <<>>
    /\ i' = 0
    /\ pc' = "parse_loop"
    /\ UNCHANGED <<arg_starts, chapter_titles, max_page, page_offset, groupVars, asmVars, procVars, combVars, utilVars>>

\* lines 67-99: one iteration of the loop over the start pages
ParseChapter ==
    /\ pc = "parse_loop"
    /\ i < Len(chapter_starts)
    /\ LET start_page == chapter_starts[i + 1]
           new_chapter == NewChapter(chapter_starts, chapter_titles, page_offset, i)
           closed == IF i > 0
                     THEN SetLast(chapters,
                                  ClosePrevious(chapters[Len(chapters)], start_page, page_offset))
                     ELSE chapters
       IN chapters' = Append(closed, new_chapter)
    /\ i' = i + 1
    /\ UNCHANGED <<pc, arg_starts, chapter_starts, chapter_titles, max_page, page_offset, groupVars, asmVars, procVars, combVars, utilVars>>

\* lines 101-128: the last chapter's end, the back matter, the return
ParseLast ==
    /\ pc = "parse_loop"
    /\ i = Len(chapter_starts)
    /\ IF chapters # <<>> /\ max_page # 0
       THEN LET last_chapter_end == LastChapterEnd(max_page)
                closed == SetLast(chapters,
                                  CloseLast(chapters[Len(chapters)], last_chapter_end, page_offset))
            IN chapters' = IF max_page > last_chapter_end
                           THEN Append(closed,
                                       BackMatter(Len(chapter_starts), last_chapter_end,
                                                  max_page, page_offset))
                           ELSE closed
       ELSE chapters' = chapters
    /\ pc' = "parse_done"
    /\ UNCHANGED <<arg_starts, chapter_starts, chapter_titles, max_page, page_offset, i, groupVars, asmVars, procVars, combVars, utilVars>>

NextParse == ParseEmpty \/ ParseFront \/ ParseChapter \/ ParseLast


SpecParse == InitParse /\ [][NextParse]_vars

(***************************************************************************)
(* optimize_chapter_groups                                                 *)
(***************************************************************************)
MaxNum == 4
MaxWeight == 2
MaxK == 3

PyMin(a, b) == IF a < b THEN a ELSE b
PyMax(a, b) == IF a > b THEN a ELSE b

\* f"{n:02d}"
Fmt02(n) == IF n < 10 THEN "0" \o ToString(n) ELSE ToString(n)

RECURSIVE ChapterListsFrom(_)
\* the chapter lists with strictly increasing numbers in lo..MaxNum
ChapterListsFrom(lo) ==
    {<<>>} \cup
    UNION {{<<[number |-> m, char_count |-> w]>> \o rest :
               w \in 0..MaxWeight, rest \in ChapterListsFrom(m + 1)} : m \in lo..MaxNum}

\* a slip in lines 321-328: the group holds the position, not the number
SingletonGroupsByIndex(chs) ==
    [x \in 1..Len(chs) |->
        [file |-> Fmt02(x),
         chapters |-> <<x>>,
         desc |-> "Chapter " \o ToString(x)]]

\* lines 321-328: one group per chapter
SingletonGroups(chs) ==
    [x \in 1..Len(chs) |->
        [file |-> Fmt02(x),
         chapters |-> <<chs[x].number>>,
         desc |-> "Chapter " \o ToString(chs[x].number)]]

\* a slip in line 331: one partition too many
NumPartitionsOneMore(maxFiles, n) == PyMin(maxFiles + 1, n)

\* line 331
NumPartitions(maxFiles, n) == PyMin(maxFiles, n)

RECURSIVE PrefixSum(_, _)
\* lines 334-336: prefix_sum[x] of the code is PrefixSum(chs, x)
PrefixSum(chs, x) == IF x = 0 THEN 0 ELSE PrefixSum(chs, x - 1) + chs[x].char_count

\* float("inf") of line 340, as a number above every sum of char_counts of
\* the call: "<" and max() then act on it as they do on inf
Inf == PrefixSum(processed_chapters, Len(processed_chapters)) + 1

\* a slip in line 347: the base case is never filled in
BaseCaseUnset(prefix, x) == Inf

\* line 347: the base case dp[x][1]
BaseCase(prefix, x) == prefix[x]

\* lines 340-347: the tables as allocated, with the base case filled in
InitialDp(prefix, n, k) ==
    [x \in 0..n |-> [y \in 0..k |-> IF x >= 1 /\ y = 1 THEN BaseCase(prefix, x) ELSE Inf]]

InitialPartition(n, k) == [x \in 0..n |-> [y \in 0..k |-> 0]]

\* a slip in line 353: the cost is the sum, not the maximum
CurrentCostSum(d, prefix, x, y, p) == d[p][y - 1] + (prefix[x] - prefix[p])

\* line 353
CurrentCost(d, prefix, x, y, p) == PyMax(d[p][y - 1], prefix[x] - prefix[p])

RECURSIVE FillP(_, _, _, _, _)
\* lines 352-356: the loop "for p in range(j - 1, i)" from p on, for cell (x, y);
\* t is <<dp, partition>>
FillP(t, prefix, x, y, p) ==
    IF p >= x THEN t
    ELSE LET current_cost == CurrentCost(t[1], prefix, x, y, p)
         IN IF current_cost < t[1][x][y]
            THEN FillP(<<[t[1] EXCEPT ![x][y] = current_cost],
                         [t[2] EXCEPT ![x][y] = p]>>, prefix, x, y, p + 1)
            ELSE FillP(t, prefix, x, y, p + 1)

RECURSIVE FillJShort(_, _, _, _, _)
\* a slip in line 351: "range(2, min(i + 1, k))" leaves column k unfilled
FillJShort(t, prefix, k, x, y) ==
    IF y >= PyMin(x + 1, k) THEN t
    ELSE FillJShort(FillP(t, prefix, x, y, y - 1), prefix, k, x, y + 1)

RECURSIVE FillJ(_, _, _, _, _)
\* line 351: the loop "for j in range(2, min(i + 1, k + 1))" from y on
FillJ(t, prefix, k, x, y) ==
    IF y >= PyMin(x + 1, k + 1) THEN t
    ELSE FillJ(FillP(t, prefix, x, y, y - 1), prefix, k, x, y + 1)

RECURSIVE FillI(_, _, _, _, _)
\* line 350: the loop "for i in range(1, n + 1)" from x on
FillI(t, prefix, n, k, x) ==
    IF x > n THEN t
    ELSE FillI(FillJ(t, prefix, k, x, 2), prefix, n, k, x + 1)

\* a slip in line 364: the column of the cut is off by one
WalkPrevShifted(part, cur, rem) == part[cur][rem - 1]

\* line 364
WalkPrev(part, cur, rem) == part[cur][rem]

\* a slip in lines 366-368: range(prev + 1, current) leaves the last one out
ChapterGroupDropLast(chs, prev, cur) == [x \in 1..(cur - prev - 1) |-> chs[prev + x].number]

\* lines 366-368: the chapter numbers of positions prev+1 .. current
ChapterGroup(chs, prev, cur) == [x \in 1..(cur - prev) |-> chs[prev + x].number]

\* a slip in lines 378-381: a group of one chapter is described as a range
GroupDescAlwaysRange(nums) ==
    "Chapters " \o ToString(nums[1]) \o "-" \o ToString(nums[Len(nums)])

\* lines 378-381 (the en dash of the range is written "-" here)
GroupDesc(nums) ==
    IF Len(nums) = 1
    THEN "Chapter " \o ToString(nums[1])
    ELSE "Chapters " \o ToString(nums[1]) \o "-" \o ToString(nums[Len(nums)])

\* lines 375-385
FormatGroups(gs) ==
    [x \in 1..Len(gs) |-> [file |-> Fmt02(x), chapters |-> gs[x], desc |-> GroupDesc(gs[x])]]

\* the documented scenario: nine chapters of 100 characters, three files
GroupScenarios ==
    <<[chapters |-> [x \in 1..9 |-> [number |-> x, char_count |-> 100]], files |-> 3]>>

InitGroups ==
    /\ pc = "groups_start"
    /\ \/ /\ processed_chapters \in ChapterListsFrom(0)
          /\ max_combined_files \in 1..MaxK
       \/ \E n \in DOMAIN GroupScenarios :
             /\ processed_chapters = GroupScenarios[n].chapters
             /\ max_combined_files = GroupScenarios[n].files
    /\ prefix_sum = <<>>
    /\ dp = <<>>
    /\ partition = <<>>
    /\ groups = <<>>
    /\ current = 0
    /\ remaining = 0
    /\ formatted_groups = <<>>
    /\ IdleParse
    /\ IdleAssemble
    /\ IdleProcess
    /\ IdleCombine
    /\ IdleUtil

\* lines 316-317: "if not chapters: return []"
GroupsEmpty ==
    /\ pc = "groups_start"
    /\ processed_chapters = <<>>
    /\ formatted_groups' = <<>>
    /\ pc' = "groups_done"
    /\ UNCHANGED <<processed_chapters, max_combined_files, prefix_sum, dp, partition,
                   groups, current, remaining, parseVars, asmVars, procVars, combVars, utilVars>>

\* lines 320-328: no more chapters than files
GroupsSingletons ==
    /\ pc = "groups_start"
    /\ processed_chapters # <<>>
    /\ Len(processed_chapters) <= max_combined_files
    /\ formatted_groups' = SingletonGroups(processed_chapters)
    /\ pc' = "groups_done"
    /\ UNCHANGED <<processed_chapters, max_combined_files, prefix_sum, dp, partition,
                   groups, current, remaining, parseVars, asmVars, procVars, combVars, utilVars>>

\* lines 330-361: the prefix sums, the tables, and the start of the walk
GroupsFill ==
    /\ pc = "groups_start"
    /\ processed_chapters # <<>>
    /\ Len(processed_chapters) > max_combined_files
    /\ LET n == Len(processed_chapters)
           k == NumPartitions(max_combined_files, n)
           prefix == [x \in 0..n |-> PrefixSum(processed_chapters, x)]
           t == FillI(<<InitialDp(prefix, n, k), InitialPartition(n, k)>>, prefix, n, k, 1)
       IN /\ prefix_sum' = prefix
          /\ dp' = t[1]
          /\ partition' = t[2]
          /\ groups' = <<>>
          /\ current' = n
          /\ remaining' = k
    /\ pc' = "groups_walk"
    /\ UNCHANGED <<processed_chapters, max_combined_files, formatted_groups,
                   parseVars, asmVars, procVars, combVars, utilVars>>

\* lines 363-372: one iteration of the backward walk
GroupsWalk ==
    /\ pc = "groups_walk"
    /\ current > 0 /\ remaining > 0
    /\ LET prev == WalkPrev(partition, current, remaining)
       IN /\ groups' = <<ChapterGroup(processed_chapters, prev, current)>> \o groups
          /\ current' = prev
    /\ remaining' = remaining - 1
    /\ UNCHANGED <<pc, processed_chapters, max_combined_files, prefix_sum, dp, partition,
                   formatted_groups, parseVars, asmVars, procVars, combVars, utilVars>>

\* lines 374-387: the walk has ended; format and return
GroupsFormat ==
    /\ pc = "groups_walk"
    /\ ~(current > 0 /\ remaining > 0)
    /\ formatted_groups' = FormatGroups(groups)
    /\ pc' = "groups_done"
    /\ UNCHANGED <<processed_chapters, max_combined_files, prefix_sum, dp, partition,
                   groups, current, remaining, parseVars, asmVars, procVars, combVars, utilVars>>

NextGroups == GroupsEmpty \/ GroupsSingletons \/ GroupsFill \/ GroupsWalk \/ GroupsFormat

SpecGroups == InitGroups /\ [][NextGroups]_vars

(***************************************************************************)
(* process_chapter                                                         *)
(***************************************************************************)
MaxStartPage == 2
MaxSpan == 3
MaxAsmOffset == 1

\* A page file holds bytes. The bytes of the model: 65 "A"; 195 169, the
\* UTF-8 encoding of one character (U+00E9); 195 alone and 255, which are
\* not UTF-8.
PageContents == {<<>>, <<65>>, <<195, 169>>, <<195>>, <<65, 255>>}

\* What open(page_path) meets: a readable file, no file (FileNotFoundError),
\* a file that cannot be opened or read (PermissionError, IsADirectoryError,
\* another OSError), and a file that is there at the first open and can no
\* longer be read at the second one.
PageFiles ==
    {[kind |-> "file", bytes |-> b] : b \in PageContents}
    \cup {[kind |-> "missing", bytes |-> <<>>],
          [kind |-> "unreadable", bytes |-> <<65>>],
          [kind |-> "vanishing", bytes |-> <<195>>]}

RECURSIVE Utf8Decode(_)
\* bytes.decode("utf-8") on one- and two-byte sequences:
\* [ok |-> FALSE] is UnicodeDecodeError
Utf8Decode(b) ==
    IF b = <<>> THEN [ok |-> TRUE, text |-> <<>>]
    ELSE IF b[1] < 128
         THEN LET rest == Utf8Decode(Tail(b))
              IN IF rest.ok THEN [ok |-> TRUE, text |-> <<b[1]>> \o rest.text]
                 ELSE [ok |-> FALSE, text |-> <<>>]
    ELSE IF b[1] >= 194 /\ b[1] <= 223 /\ Len(b) >= 2 /\ b[2] >= 128 /\ b[2] <= 191
         THEN LET rest == Utf8Decode(Tail(Tail(b)))
              IN IF rest.ok
                 THEN [ok |-> TRUE, text |-> <<(b[1] - 192) * 64 + (b[2] - 128)>> \o rest.text]
                 ELSE [ok |-> FALSE, text |-> <<>>]
    ELSE [ok |-> FALSE, text |-> <<>>]

\* bytes.decode("latin-1"): every byte is one character
Latin1Decode(b) == b

\* lines 163-174: the chapter header
HeaderRecord(ch) ==
    [kind |-> "header",
     title |-> ch.title,
     dual |-> ch.page_offset > 0,
     pages |-> <<ch.start_page, ch.end_page>>,
     book_pages |-> <<ch.book_start_page, ch.book_end_page>>]

\* lines 183-195 (kind "begin") and 218-226 (kind "end"): a page marker
Marker(kind, pn, off) ==
    [kind |-> kind, page |-> pn, dual |-> off > 0,
     book_page |-> IF off > 0 THEN pn - off ELSE pn]

\* lines 201, 210: the page's content
TextRecord(pn, content) == [kind |-> "text", page |-> pn, text |-> content]

\* lines 204, 213-215: a placeholder
WarningRecord(pn, why) == [kind |-> "warning", page |-> pn, why |-> why]

\* a slip in lines 202, 211: "=" for "+="
AddCountOverwrite(count, content) == Len(content)

\* lines 202, 211: char_count += len(content)
AddCount(count, content) == count + Len(content)

\* lines 198-215 without the "except FileNotFoundError" clause
ReadPageMissingFatal(f, pn, count) ==
    IF f.kind = "missing" \/ f.kind = "unreadable"
    THEN [raised |-> TRUE, rec |-> WarningRecord(pn, "none"), count |-> count]
    ELSE LET u == Utf8Decode(f.bytes)
         IN IF u.ok
            THEN [raised |-> FALSE, rec |-> TextRecord(pn, u.text),
                  count |-> AddCount(count, u.text)]
            ELSE IF f.kind = "vanishing"
            THEN [raised |-> FALSE,
                  rec |-> WarningRecord(pn, "content could not be decoded"), count |-> count]
            ELSE [raised |-> FALSE, rec |-> TextRecord(pn, Latin1Decode(f.bytes)),
                  count |-> AddCount(count, Latin1Decode(f.bytes))]

\* What lines 198-215 do for page file f: "raised" when the exception is
\* none of those the inner try catches, else the record written and the
\* new char_count
ReadPage(f, pn, count) ==
    IF f.kind = "missing"
    THEN [raised |-> FALSE, rec |-> WarningRecord(pn, "content not found"), count |-> count]
    ELSE IF f.kind = "unreadable"
    THEN [raised |-> TRUE, rec |-> WarningRecord(pn, "none"), count |-> count]
    ELSE LET u == Utf8Decode(f.bytes)
         IN IF u.ok
            THEN [raised |-> FALSE, rec |-> TextRecord(pn, u.text),
                  count |-> AddCount(count, u.text)]
            ELSE IF f.kind = "vanishing"
            THEN [raised |-> FALSE,
                  rec |-> WarningRecord(pn, "content could not be decoded"), count |-> count]
            ELSE [raised |-> FALSE, rec |-> TextRecord(pn, Latin1Decode(f.bytes)),
                  count |-> AddCount(count, Latin1Decode(f.bytes))]

\* line 236: the failure tuple
Failure(ch) == [success |-> FALSE, output_path |-> None, char_count |-> 0]

\* lines 228-233: the success tuple
Success(ch, count) ==
    [success |-> TRUE, output_path |-> "chapter_" \o Fmt02(ch.number) \o ".txt",
     char_count |-> count]

\* the chapters handed to process_chapter: any start page, 0..MaxSpan pages
\* (parse_chapter_locations returns an empty range for a last chapter that
\* starts on the last page), with the book pages of the offset
AsmChapters ==
    {[number |-> 1, title |-> "Intro",
      start_page |-> s, end_page |-> s + n - 1,
      book_start_page |-> IF off > 0 THEN s - off ELSE s,
      book_end_page |-> IF off > 0 THEN s + n - 1 - off ELSE s + n - 1,
      page_offset |-> off] :
        s \in 1..MaxStartPage, n \in 0..MaxSpan, off \in 0..MaxAsmOffset}

InitAssemble ==
    /\ pc = "asm_start"
    /\ chapter \in AsmChapters
    /\ text_dir \in [chapter.start_page..chapter.end_page -> PageFiles]
    /\ outfile = <<>>
    /\ char_count = 0
    /\ page_num = 0
    /\ result = None
    /\ IdleParse
    /\ IdleGroups
    /\ IdleProcess
    /\ IdleCombine
    /\ IdleUtil

\* lines 156-177: create the directory and the file, write the header
OpenOutput ==
    /\ pc = "asm_start"
    /\ \E created \in {"ok", "makedirs fails", "open fails"} :
          IF created = "ok"
          THEN /\ outfile' = <<HeaderRecord(chapter)>>
               /\ char_count' = 0
               /\ page_num' = chapter.start_page
               /\ pc' = "asm_pages"
               /\ UNCHANGED result
          ELSE /\ result' = Failure(chapter)
               /\ pc' = "asm_done"
               /\ UNCHANGED <<outfile, char_count, page_num>>
    /\ UNCHANGED <<chapter, text_dir, parseVars, groupVars, procVars, combVars, utilVars>>

\* lines 178-226: one iteration of the loop over the chapter's pages; an
\* exception the inner try does not catch reaches line 235
WritePage ==
    /\ pc = "asm_pages"
    /\ page_num <= chapter.end_page
    /\ LET begun == Append(outfile, Marker("begin", page_num, chapter.page_offset))
           r == ReadPage(text_dir[page_num], page_num, char_count)
       IN IF r.raised
          THEN /\ outfile' = begun
               /\ result' = Failure(chapter)
               /\ pc' = "asm_done"
               /\ UNCHANGED <<char_count, page_num>>
          ELSE /\ outfile' = begun \o <<r.rec, Marker("end", page_num, chapter.page_offset)>>
               /\ char_count' = r.count
               /\ page_num' = page_num + 1
               /\ UNCHANGED <<pc, result>>
    /\ UNCHANGED <<chapter, text_dir, parseVars, groupVars, procVars, combVars, utilVars>>

\* lines 228-233: the loop has ended
ReturnSuccess ==
    /\ pc = "asm_pages"
    /\ page_num > chapter.end_page
    /\ result' = Success(chapter, char_count)
    /\ pc' = "asm_done"
    /\ UNCHANGED <<chapter, text_dir, outfile, char_count, page_num, parseVars, groupVars, procVars, combVars, utilVars>>

NextAssemble == OpenOutput \/ WritePage \/ ReturnSuccess

SpecAssemble == InitAssemble /\ [][NextAssemble]_vars

(***************************************************************************)
(* process_chapters                                                        *)
(***************************************************************************)
MaxProcPage == 2

RECURSIVE ParseLoop(_, _, _, _, _)
\* lines 67-99 of parse_chapter_locations, from the 0-based index idx on
ParseLoop(chs, cs, titles, off, idx) ==
    IF idx >= Len(cs) THEN chs
    ELSE LET closed == IF idx > 0
                       THEN SetLast(chs, ClosePrevious(chs[Len(chs)], cs[idx + 1], off))
                       ELSE chs
         IN ParseLoop(Append(closed, NewChapter(cs, titles, off, idx)),
                      cs, titles, off, idx + 1)

\* parse_chapter_locations as a function of its arguments: the list that
\* ParseEmpty, ParseFront, ParseChapter and ParseLast build step by step
parse_chapter_locations(starts, titles, maxp, off) ==
    IF starts = <<>> THEN <<>>
    ELSE LET cs == sorted(starts)
             front == IF cs[1] > 1 THEN <<FrontMatter(cs, off)>> ELSE <<>>
             looped == ParseLoop(front, cs, titles, off, 0)
         IN IF looped # <<>> /\ maxp # 0
            THEN LET last_chapter_end == LastChapterEnd(maxp)
                     closed == SetLast(looped,
                                       CloseLast(looped[Len(looped)], last_chapter_end, off))
                 IN IF maxp > last_chapter_end
                    THEN Append(closed, BackMatter(Len(cs), last_chapter_end, maxp, off))
                    ELSE closed
            ELSE looped

RECURSIVE AscendingFrom(_)
\* the strictly ascending lists of start pages in lo..MaxProcPage
AscendingFrom(lo) ==
    {<<>>} \cup
    UNION {{<<p>> \o rest : rest \in AscendingFrom(p + 1)} : p \in lo..MaxProcPage}

\* the page files process_chapters meets: readable, missing, unreadable
ProcPageFiles ==
    {[kind |-> "file", bytes |-> <<65>>],
     [kind |-> "missing", bytes |-> <<>>],
     [kind |-> "unreadable", bytes |-> <<65>>]}

RECURSIVE WritePages(_, _, _, _)
\* lines 178-233 of process_chapter: the loop over the pages from pn on, and
\* the tuple returned
WritePages(ch, dir, pn, count) ==
    IF pn > ch.end_page THEN Success(ch, count)
    ELSE LET r == ReadPage(dir[pn], pn, count)
         IN IF r.raised THEN Failure(ch)
            ELSE WritePages(ch, dir, pn + 1, r.count)

\* process_chapter (lines 130-236) as a function: the tuple it returns for
\* chapter ch, the page files dir and the chapter files that cannot be
\* created (what OpenOutput, WritePage and ReturnSuccess compute)
process_chapter(ch, dir, blocked) ==
    IF ch.number \in blocked THEN Failure(ch)
    ELSE WritePages(ch, dir, ch.start_page, 0)

\* a slip in lines 267-268: the output path is not recorded
WithResultCountOnly(ch, r) ==
    [k \in DOMAIN ch \cup {"char_count"} |->
        IF k = "char_count" THEN r.char_count ELSE ch[k]]

\* lines 267-268: chapter["char_count"] = ..., chapter["output_path"] = ...
WithResult(ch, r) ==
    [k \in DOMAIN ch \cup {"char_count", "output_path"} |->
        IF k = "char_count" THEN r.char_count
        ELSE IF k = "output_path" THEN r.output_path
        ELSE ch[k]]

\* a slip in lines 259-274: the loop is left at the first failure
NextChapterBreak(idx, n, ok) == IF ok THEN idx + 1 ELSE n

\* lines 259-274: the loop goes on to the next chapter whatever the outcome
NextChapter(idx, n, ok) == idx + 1

\* line 251
NoChaptersResult ==
    [success |-> FALSE,
     message |-> [kind |-> "No chapters to process"],
     processed_chapters |-> <<>>]

\* lines 279-285
FailuresResult(processed, failed, n) ==
    [success |-> Len(processed) > 0,
     message |-> [kind |-> "Chapter processing completed with failures",
                  failures |-> Len(failed), total |-> n],
     processed_chapters |-> processed]

\* lines 287-291
AllProcessedResult(processed, n) ==
    [success |-> TRUE,
     message |-> [kind |-> "Successfully processed all chapters", total |-> n],
     processed_chapters |-> processed]

\* the chapter files that cannot be created: none, all of them (the output
\* directory cannot be made), or one of them
OutputFailures(chs) ==
    {{}, {chs[k].number : k \in DOMAIN chs}} \cup {{chs[k].number} : k \in DOMAIN chs}

\* the variables process_chapters does not touch
procFrame ==
    <<arg_starts, chapter_starts, chapter_titles, max_page, page_offset,
      max_combined_files, prefix_sum, dp, partition, groups, current, remaining,
      formatted_groups, chapter, outfile, char_count, page_num, combVars, utilVars>>

\* the call of main (lines 589-601): the chapters are those that
\* parse_chapter_locations has returned for the operator's start pages
InitProcess ==
    /\ pc = "proc_start"
    /\ arg_starts \in AscendingFrom(1)
    /\ max_page \in {MaxProcPage, MaxProcPage + 1}
    /\ page_offset \in 0..MaxAsmOffset
    /\ chapters = parse_chapter_locations(arg_starts, None, max_page, page_offset)
    /\ text_dir \in [1..(MaxProcPage + 1) -> ProcPageFiles]
    /\ output_dir \in OutputFailures(chapters)
    /\ i = 0
    /\ processed_chapters = <<>>
    /\ failed_chapters = <<>>
    /\ result = None
    /\ chapter_starts = <<>>
    /\ chapter_titles = None
    /\ max_combined_files = 0
    /\ prefix_sum = <<>>
    /\ dp = <<>>
    /\ partition = <<>>
    /\ groups = <<>>
    /\ current = 0
    /\ remaining = 0
    /\ formatted_groups = <<>>
    /\ chapter = None
    /\ outfile = <<>>
    /\ char_count = 0
    /\ page_num = 0
    /\ IdleCombine
    /\ IdleUtil

\* lines 250-251: "if not chapters: return False, ..., []"
ProcessEmpty ==
    /\ pc = "proc_start"
    /\ chapters = <<>>
    /\ result' = NoChaptersResult
    /\ pc' = "proc_done"
    /\ UNCHANGED <<chapters, i, processed_chapters, failed_chapters, text_dir,
                   output_dir, procFrame>>

\* lines 253-257: the two empty lists
ProcessStart ==
    /\ pc = "proc_start"
    /\ chapters # <<>>
    /\ processed_chapters' = <<>>
    /\ failed_chapters' = <<>>
    /\ i' = 0
    /\ pc' = "proc_loop"
    /\ UNCHANGED <<chapters, text_dir, output_dir, result, procFrame>>

\* lines 259-274: one iteration of the loop over the chapters
ProcessChapter ==
    /\ pc = "proc_loop"
    /\ i < Len(chapters)
    /\ LET r == process_chapter(chapters[i + 1], text_dir, output_dir)
           done == WithResult(chapters[i + 1], r)
       IN /\ IF r.success
             THEN /\ chapters' = [chapters EXCEPT ![i + 1] = done]
                  /\ processed_chapters' = Append(processed_chapters, done)
                  /\ UNCHANGED failed_chapters
             ELSE /\ failed_chapters' =
                        Append(failed_chapters,
                               <<chapters[i + 1],
                                 "Error processing chapter "
                                     \o ToString(chapters[i + 1].number)>>)
                  /\ UNCHANGED <<chapters, processed_chapters>>
          /\ i' = NextChapter(i, Len(chapters), r.success)
    /\ UNCHANGED <<pc, text_dir, output_dir, result, procFrame>>

\* lines 276-291: the loop has ended
ProcessReturn ==
    /\ pc = "proc_loop"
    /\ i >= Len(chapters)
    /\ result' = IF failed_chapters # <<>>
                 THEN FailuresResult(processed_chapters, failed_chapters, Len(chapters))
                 ELSE AllProcessedResult(processed_chapters, Len(chapters))
    /\ pc' = "proc_done"
    /\ UNCHANGED <<chapters, i, processed_chapters, failed_chapters, text_dir,
                   output_dir, procFrame>>

NextProcess == ProcessEmpty \/ ProcessStart \/ ProcessChapter \/ ProcessReturn

SpecProcess == InitProcess /\ [][NextProcess]_vars

\* main, lines 602-614: when process_chapters has reported success, the
\* returned chapters go to optimize_chapter_groups (the organizer's
\* max_combined_files is 9 in main; it is 1..MaxK here)
MainHandOver ==
    /\ pc = "proc_done"
    /\ result.success
    /\ max_combined_files' \in 1..MaxK
    /\ pc' = "groups_start"
    /\ UNCHANGED <<parseVars, processed_chapters, prefix_sum, dp, partition, groups,
                   current, remaining, formatted_groups, asmVars, procVars, combVars,
                   utilVars>>

NextProcessGroups ==
    \/ ProcessEmpty \/ ProcessStart \/ ProcessChapter \/ ProcessReturn
    \/ MainHandOver
    \/ GroupsSingletons \/ GroupsFill \/ GroupsWalk \/ GroupsFormat

SpecProcessGroups == InitProcess /\ [][NextProcessGroups]_vars

(***************************************************************************)
(* create_combined_file                                                    *)
(***************************************************************************)
\* What open(chapter_path) meets: a chapter file that is UTF-8, one that is
\* not, no file (FileNotFoundError), a file that cannot be opened or read
\* (PermissionError, IsADirectoryError, another OSError), and a file that is
\* read at the first open and can no longer be read at the second one.
ChapterFiles ==
    {[kind |-> "file", bytes |-> <<65>>],
     [kind |-> "file", bytes |-> <<195>>],
     [kind |-> "missing", bytes |-> <<>>],
     [kind |-> "unreadable", bytes |-> <<65>>],
     [kind |-> "vanishing", bytes |-> <<195>>]}

RECURSIVE InsertByNumber(_, _)
\* ch put into the list s, sorted by number, after the records of its number
InsertByNumber(s, ch) ==
    IF s = <<>> THEN <<ch>>
    ELSE IF ch.number < Head(s).number THEN <<ch>> \o s
    ELSE <<Head(s)>> \o InsertByNumber(Tail(s), ch)

RECURSIVE SortByNumber(_)
\* line 418: group_chapters.sort(key=lambda x: x["number"])
SortByNumber(s) ==
    IF s = <<>> THEN <<>>
    ELSE InsertByNumber(SortByNumber(SubSeq(s, 1, Len(s) - 1)), s[Len(s)])

\* lines 415-418: the chapters of the group, sorted by number
GroupChapters(grp, chs) ==
    LET member(ch) == \E x \in DOMAIN grp.chapters : grp.chapters[x] = ch.number
    IN SortByNumber(SelectSeq(chs, member))

\* min(...) and max(...) of lines 421-422 and 429-434
MinOf(S) == CHOOSE m \in S : \A x \in S : m <= x

MaxOf(S) == CHOOSE m \in S : \A x \in S : m >= x

\* a slip in line 425: all(...) for any(...)
HasOffsetAll(gc) == \A k \in DOMAIN gc : gc[k].page_offset > 0

\* line 425: has_offset
HasOffset(gc) == \E k \in DOMAIN gc : gc[k].page_offset > 0

\* line 407
OutputFilename(grp) == "combined_" \o grp.file \o ".txt"

\* lines 439-441 (both numberings) and 475-477 (physical pages only): the
\* header of the bundle
CombinedHeader(grp, gc) ==
    [kind |-> "header",
     file |-> OutputFilename(grp),
     desc |-> grp.desc,
     dual |-> HasOffset(gc),
     pages |-> <<MinOf({gc[k].start_page : k \in DOMAIN gc}),
                 MaxOf({gc[k].end_page : k \in DOMAIN gc})>>,
     book_pages |-> IF HasOffset(gc)
                    THEN <<MinOf({gc[k].book_start_page : k \in DOMAIN gc}),
                           MaxOf({gc[k].book_end_page : k \in DOMAIN gc})>>
                    ELSE None]

\* lines 452-453, 465-466: the chapter's content, followed by a blank line
ChapterText(num, content) == [kind |-> "text", chapter |-> num, text |-> content]

\* lines 455-457, 468-470: a placeholder
ChapterWarning(num, why) == [kind |-> "warning", chapter |-> num, why |-> why]

\* What lines 449-470 (485-506) do for chapter file f: "raised" when the
\* exception is none of those the inner try catches, else the record written
ReadChapter(f, num) ==
    IF f.kind = "missing"
    THEN [raised |-> FALSE, rec |-> ChapterWarning(num, "content not found")]
    ELSE IF f.kind = "unreadable"
    THEN [raised |-> TRUE, rec |-> ChapterWarning(num, "none")]
    ELSE LET u == Utf8Decode(f.bytes)
         IN IF u.ok
            THEN [raised |-> FALSE, rec |-> ChapterText(num, u.text)]
            ELSE IF f.kind = "vanishing"
            THEN [raised |-> FALSE,
                  rec |-> ChapterWarning(num, "content could not be decoded")]
            ELSE [raised |-> FALSE, rec |-> ChapterText(num, Latin1Decode(f.bytes))]

\* lines 514-519: the failure tuple
CombineFailure(grp) == [success |-> FALSE, output_path |-> None]

\* lines 508-512: the success tuple
CombineSuccess(grp) == [success |-> TRUE, output_path |-> OutputFilename(grp)]

\* a call with chapters of different offsets
CombineScenarios ==
    <<[chapters |->
          <<[number |-> 1, title |-> "Chapter 1", start_page |-> 1, end_page |-> 2,
             book_start_page |-> 1, book_end_page |-> 2, page_offset |-> 0],
            [number |-> 2, title |-> "Chapter 2", start_page |-> 3, end_page |-> 4,
             book_start_page |-> 2, book_end_page |-> 3, page_offset |-> 1]>>]>>

\* the variables create_combined_file does not touch
combFrame ==
    <<arg_starts, chapter_starts, chapter_titles, max_page, page_offset, i,
      groupVars, chapter, text_dir, char_count, page_num, procVars, utilVars>>

InitCombine ==
    /\ pc = "comb_start"
    /\ \/ \E starts \in AscendingFrom(1) \ {<<>>},
             maxp \in {MaxProcPage, MaxProcPage + 1}, off \in 0..MaxAsmOffset :
             chapters = parse_chapter_locations(starts, None, maxp, off)
       \/ \E n \in DOMAIN CombineScenarios : chapters = CombineScenarios[n].chapters
    /\ \E a \in 1..Len(chapters) : \E b \in a..Len(chapters) :
          LET nums == ChapterGroup(chapters, a - 1, b)
          IN group = [file |-> Fmt02(1), chapters |-> nums, desc |-> GroupDesc(nums)]
    /\ chapters_dir \in [{group.chapters[x] : x \in DOMAIN group.chapters} -> ChapterFiles]
    /\ group_chapters = <<>>
    /\ group_pos = 0
    /\ outfile = <<>>
    /\ result = None
    /\ arg_starts = <<>>
    /\ chapter_starts = <<>>
    /\ chapter_titles = None
    /\ max_page = 0
    /\ page_offset = 0
    /\ i = 0
    /\ IdleGroups
    /\ chapter = None
    /\ text_dir = <<>>
    /\ char_count = 0
    /\ page_num = 0
    /\ IdleProcess
    /\ IdleUtil

\* lines 410-441 (473-477): the directory, the members, the page range, the
\* output file and its header
CombineOpen ==
    /\ pc = "comb_start"
    /\ \E created \in {"ok", "makedirs fails", "open fails"} :
          LET gc == GroupChapters(group, chapters)
          IN IF created = "makedirs fails"
             THEN /\ result' = CombineFailure(group)
                  /\ pc' = "comb_done"
                  /\ UNCHANGED <<group_chapters, group_pos, outfile>>
             ELSE IF gc = <<>> \/ created = "open fails"
             THEN /\ group_chapters' = gc
                  /\ result' = CombineFailure(group)
                  /\ pc' = "comb_done"
                  /\ UNCHANGED <<group_pos, outfile>>
             ELSE /\ group_chapters' = gc
                  /\ outfile' = <<CombinedHeader(group, gc)>>
                  /\ group_pos' = 1
                  /\ pc' = "comb_chapters"
                  /\ UNCHANGED result
    /\ UNCHANGED <<chapters, group, chapters_dir, combFrame>>

\* lines 444-470 (480-506): one iteration of the loop over the members; an
\* exception the inner try does not catch reaches line 514
CombineChapter ==
    /\ pc = "comb_chapters"
    /\ group_pos <= Len(group_chapters)
    /\ LET chapter_num == group_chapters[group_pos].number
           r == ReadChapter(chapters_dir[chapter_num], chapter_num)
       IN IF r.raised
          THEN /\ result' = CombineFailure(group)
               /\ pc' = "comb_done"
               /\ UNCHANGED <<outfile, group_pos>>
          ELSE /\ outfile' = Append(outfile, r.rec)
               /\ group_pos' = group_pos + 1
               /\ UNCHANGED <<pc, result>>
    /\ UNCHANGED <<chapters, group, chapters_dir, group_chapters, combFrame>>

\* lines 508-512: the loop has ended
CombineReturn ==
    /\ pc = "comb_chapters"
    /\ group_pos > Len(group_chapters)
    /\ result' = CombineSuccess(group)
    /\ pc' = "comb_done"
    /\ UNCHANGED <<chapters, group, chapters_dir, group_chapters, group_pos, outfile,
                   combFrame>>

NextCombine == CombineOpen \/ CombineChapter \/ CombineReturn

SpecCombine == InitCombine /\ [][NextCombine]_vars

(***************************************************************************)
(* validate_page_numbers (utils/validation.py)                             *)
(***************************************************************************)
MaxValLen == 2
MaxValPages == 3

\* A Python str is the list of its characters; a Python int is its value.
PyStr(chars) == [type |-> "str", chars |-> chars, value |-> 0]

PyInt(n) == [type |-> "int", chars |-> <<>>, value |-> n]

\* the elements a caller puts in page_numbers: the strings "1", "2", "3",
\* " 1", "2 ", "0", "-1", "12", "x", "1x", "" and " ", and the integers 1, 2, 3
PageTokens ==
    {PyStr(<<"1">>), PyStr(<<"2">>), PyStr(<<"3">>), PyStr(<<" ", "1">>),
     PyStr(<<"2", " ">>), PyStr(<<"0">>), PyStr(<<"-", "1">>), PyStr(<<"1", "2">>),
     PyStr(<<"x">>), PyStr(<<"1", "x">>), PyStr(<<>>), PyStr(<<" ">>),
     PyInt(1), PyInt(2), PyInt(3)}

Digits == {"0", "1", "2", "3", "4", "5", "6", "7", "8", "9"}

DigitValue(c) ==
    CASE c = "0" -> 0 [] c = "1" -> 1 [] c = "2" -> 2 [] c = "3" -> 3 [] c = "4" -> 4
      [] c = "5" -> 5 [] c = "6" -> 6 [] c = "7" -> 7 [] c = "8" -> 8 [] c = "9" -> 9

RECURSIVE LStrip(_)
LStrip(chars) ==
    IF chars # <<>> /\ Head(chars) = " " THEN LStrip(Tail(chars)) ELSE chars

RECURSIVE RStrip(_)
RStrip(chars) ==
    IF chars # <<>> /\ chars[Len(chars)] = " "
    THEN RStrip(SubSeq(chars, 1, Len(chars) - 1))
    ELSE chars

\* str.strip()
Strip(chars) == RStrip(LStrip(chars))

RECURSIVE DecimalValue(_)
\* the value of a list of digits
DecimalValue(chars) ==
    IF chars = <<>> THEN 0
    ELSE DecimalValue(SubSeq(chars, 1, Len(chars) - 1)) * 10 + DigitValue(chars[Len(chars)])

\* int(s) for a string s of spaces, signs, digits and letters:
\* [ok |-> FALSE] is ValueError
PyIntOf(chars) ==
    LET body == Strip(chars)
        signed == body # <<>> /\ Head(body) \in {"-", "+"}
        digits == IF signed THEN Tail(body) ELSE body
    IN IF digits # <<>> /\ \A x \in DOMAIN digits : digits[x] \in Digits
       THEN [ok |-> TRUE,
             value |-> IF signed /\ Head(body) = "-"
                       THEN 0 - DecimalValue(digits) ELSE DecimalValue(digits)]
       ELSE [ok |-> FALSE, value |-> 0]

\* lines 50, 57-63, 67-68: a rejection
Rejected(why) == [raised |-> None, valid |-> FALSE, message |-> why, parsed |-> None]

\* line 70: the acceptance
Accepted(parsed) ==
    [raised |-> None, valid |-> TRUE, message |-> "Page numbers are valid",
     parsed |-> parsed]

\* an exception that leaves validate_page_numbers
Raised(exc) == [raised |-> exc, valid |-> FALSE, message |-> exc, parsed |-> None]

\* line 67: parsed_numbers[i] <= parsed_numbers[i-1]
OutOfOrder(a, b) == b <= a

\* the variables validate_page_numbers does not touch
valFrame ==
    <<arg_starts, chapter_starts, chapter_titles, max_page, page_offset, chapters,
      groupVars, chapter, text_dir, outfile, char_count, page_num, procVars, combVars,
      dirVars, ocrVars, mainVars>>

InitValidate ==
    /\ pc = "val_start"
    /\ page_numbers \in SeqsUpTo(PageTokens, MaxValLen)
    /\ max_pages \in 1..MaxValPages
    /\ parsed_numbers = <<>>
    /\ i = 0
    /\ result = None
    /\ arg_starts = <<>>
    /\ chapter_starts = <<>>
    /\ chapter_titles = None
    /\ max_page = 0
    /\ page_offset = 0
    /\ chapters = <<>>
    /\ IdleGroups
    /\ chapter = None
    /\ text_dir = <<>>
    /\ outfile = <<>>
    /\ char_count = 0
    /\ page_num = 0
    /\ IdleProcess
    /\ IdleCombine
    /\ IdleProject
    /\ IdleOcr
    /\ IdleMain

\* lines 49-52: "if not page_numbers: return False, ..., None"
ValidateEmpty ==
    /\ pc = "val_start"
    /\ IF page_numbers = <<>>
       THEN /\ result' = Rejected("No page numbers provided")
            /\ pc' = "val_done"
       ELSE /\ pc' = "val_parse"
            /\ UNCHANGED result
    /\ parsed_numbers' = <<>>
    /\ i' = 0
    /\ UNCHANGED <<page_numbers, max_pages, valFrame>>

\* lines 54-63: one iteration of the loop over page_numbers; num.strip() of
\* an int raises AttributeError, which the "except ValueError" lets through
ValidateParse ==
    /\ pc = "val_parse"
    /\ i < Len(page_numbers)
    /\ LET num == page_numbers[i + 1]
           page == PyIntOf(num.chars)
       IN IF num.type = "int"
          THEN /\ result' = Raised("AttributeError")
               /\ pc' = "val_done"
               /\ UNCHANGED <<parsed_numbers, i>>
          ELSE IF ~page.ok
          THEN /\ result' = Rejected("Invalid page number")
               /\ pc' = "val_done"
               /\ UNCHANGED <<parsed_numbers, i>>
          ELSE IF page.value < 1
          THEN /\ result' = Rejected("Page number must be positive")
               /\ pc' = "val_done"
               /\ UNCHANGED <<parsed_numbers, i>>
          ELSE IF page.value > max_pages
          THEN /\ result' = Rejected("Page number exceeds maximum")
               /\ pc' = "val_done"
               /\ UNCHANGED <<parsed_numbers, i>>
          ELSE /\ parsed_numbers' = Append(parsed_numbers, page.value)
               /\ i' = i + 1
               /\ UNCHANGED <<pc, result>>
    /\ UNCHANGED <<page_numbers, max_pages, valFrame>>

\* lines 65-70: the check of the order, and the return
ValidateOrder ==
    /\ pc = "val_parse"
    /\ i >= Len(page_numbers)
    /\ result' = IF \E x \in 2..Len(parsed_numbers) :
                       OutOfOrder(parsed_numbers[x - 1], parsed_numbers[x])
                 THEN Rejected("Page numbers must be in ascending order")
                 ELSE Accepted(parsed_numbers)
    /\ pc' = "val_done"
    /\ UNCHANGED <<page_numbers, max_pages, parsed_numbers, i, valFrame>>

NextValidate == ValidateEmpty \/ ValidateParse \/ ValidateOrder

SpecValidate == InitValidate /\ [][NextValidate]_vars

(***************************************************************************)
(* create_project_structure (utils/file_utils.py)                          *)
(***************************************************************************)
MaxSuffix == 3

\* The names the loop tries are numbered: 0 is "<book_name>", k is
\* "<book_name> (k)". What base_dir holds under a name: nothing, a
\* directory (empty, or with a subdirectory), a file, or a symbolic link
\* whose target is missing.
DirEntries ==
    {[kind |-> "absent", subdirs |-> {}],
     [kind |-> "dir", subdirs |-> {}],
     [kind |-> "dir", subdirs |-> {"images"}],
     [kind |-> "file", subdirs |-> {}],
     [kind |-> "dangling link", subdirs |-> {}]}

\* os.path.exists: false for a missing name and for a link to a missing target
PathExists(entry) == entry.kind \in {"dir", "file"}

\* os.makedirs(path, exist_ok=False) succeeds when nothing has the name
CanMakeDir(entry) == entry.kind = "absent"

\* lines 88-91: ensure_dir of the four subdirectories
ProjectSubdirs == {"images", "text", "chapters", "combined"}

\* the variables create_project_structure does not touch
dirFrame ==
    <<parseVars, groupVars, asmVars, procVars, combVars, valVars, ocrVars, mainVars>>

InitProject ==
    /\ pc = "proj_loop"
    /\ fs \in [0..(MaxSuffix + 1) -> DirEntries]
    /\ fs[MaxSuffix + 1].kind = "absent"
    /\ fs_before = fs
    /\ project_dir = 0
    /\ counter = 1
    /\ dirs = None
    /\ IdleParse
    /\ IdleGroups
    /\ IdleAssemble
    /\ IdleProcess
    /\ IdleCombine
    /\ IdleValidate
    /\ IdleOcr
    /\ IdleMain

\* lines 80-82: one test of "while os.path.exists(project_dir)"
ProjectTryName ==
    /\ pc = "proj_loop"
    /\ IF PathExists(fs[project_dir])
       THEN /\ project_dir' = counter
            /\ counter' = counter + 1
            /\ UNCHANGED pc
       ELSE /\ pc' = "proj_make"
            /\ UNCHANGED <<project_dir, counter>>
    /\ UNCHANGED <<fs, fs_before, dirs, dirFrame>>

\* line 85: os.makedirs(project_dir, exist_ok=False); FileExistsError leaves
\* the function
ProjectMakeDir ==
    /\ pc = "proj_make"
    /\ IF CanMakeDir(fs[project_dir])
       THEN /\ fs' = [fs EXCEPT ![project_dir] = [kind |-> "dir", subdirs |-> {}]]
            /\ pc' = "proj_subdirs"
       ELSE /\ pc' = "proj_raised"
            /\ UNCHANGED fs
    /\ UNCHANGED <<fs_before, project_dir, counter, dirs, dirFrame>>

\* lines 88-99: the four subdirectories and the returned dictionary
ProjectReturn ==
    /\ pc = "proj_subdirs"
    /\ fs' = [fs EXCEPT ![project_dir].subdirs = @ \cup ProjectSubdirs]
    /\ dirs' = [project |-> project_dir, images |-> <<project_dir, "images">>,
                text |-> <<project_dir, "text">>,
                chapters |-> <<project_dir, "chapters">>,
                combined |-> <<project_dir, "combined">>]
    /\ pc' = "proj_done"
    /\ UNCHANGED <<fs_before, project_dir, counter, dirFrame>>

NextProject == ProjectTryName \/ ProjectMakeDir \/ ProjectReturn

SpecProject == InitProject /\ [][NextProject]_vars

(***************************************************************************)
(* OCRProcessor.process_images_parallel (processors/ocr.py)                *)
(***************************************************************************)
MaxImages == 3
MaxWorkers == 3

\* An image path is the list of the "-"-separated parts of its file name
\* without directory and extension, each part a list of characters.
\* The names of the model: page-1, page-01, page-2, page-x and scan
ImageNames ==
    {<<<<"p">>, <<"1">>>>, <<<<"p">>, <<"0", "1">>>>, <<<<"p">>, <<"2">>>>,
     <<<<"p">>, <<"x">>>>, <<<<"s">>>>}

\* str.isdigit() on the characters of the model
IsDigit(chars) == chars # <<>> /\ \A x \in DOMAIN chars : chars[x] \in Digits

\* f"{n:03d}"
Fmt03(n) ==
    IF n < 10 THEN "00" \o ToString(n)
    ELSE IF n < 100 THEN "0" \o ToString(n)
    ELSE ToString(n)

\* lines 256-265: the output file name of the image at 0-based index idx
OutputName(name_parts, idx) ==
    IF Len(name_parts) > 1 /\ IsDigit(name_parts[Len(name_parts)])
    THEN "page-" \o Fmt03(DecimalValue(name_parts[Len(name_parts)]))
    ELSE "page-" \o Fmt03(idx + 1)

\* lines 254-268: the (image, output path) pairs; the image is named by its
\* position in image_paths
Pairs(paths) ==
    [x \in DOMAIN paths |-> [image |-> x, output_path |-> OutputName(paths[x], x - 1)]]

RECURSIVE Batches(_, _, _, _, _)
\* lines 275-282: the loop "for i in range(max_workers)" from w on
Batches(prs, nworkers, w, start, acc) ==
    IF w >= nworkers THEN acc
    ELSE LET pages_per_worker == Len(prs) \div nworkers
             remainder == Len(prs) % nworkers
             extra == IF w < remainder THEN 1 ELSE 0
             end == start + pages_per_worker + extra
         IN Batches(prs, nworkers, w + 1, end,
                    IF start < end
                    THEN Append(acc, SubSeq(prs, start + 1, end))
                    ELSE acc)

\* a worker process before its first image (_process_batch_worker)
FreshWorker ==
    [pos |-> 1, writing |-> FALSE, processed |-> <<>>, failed |-> <<>>, collected |-> FALSE]

\* the variables process_images_parallel does not touch
ocrFrame ==
    <<parseVars, groupVars, chapter, text_dir, outfile, char_count, page_num,
      procVars, combVars, valVars, dirVars, mainVars>>

InitOcr ==
    /\ pc = "ocr_start"
    /\ has_tesseract \in BOOLEAN
    /\ image_paths \in SeqsUpTo(ImageNames, MaxImages)
    /\ max_workers \in 0..MaxWorkers
    /\ pairs = <<>>
    /\ batches = <<>>
    /\ workers = <<>>
    /\ processed_files = <<>>
    /\ failed_files = <<>>
    /\ result = None
    /\ IdleParse
    /\ IdleGroups
    /\ chapter = None
    /\ text_dir = <<>>
    /\ outfile = <<>>
    /\ char_count = 0
    /\ page_num = 0
    /\ IdleProcess
    /\ IdleCombine
    /\ IdleValidate
    /\ IdleProject
    /\ IdleMain

\* lines 245-246: "if not self.has_tesseract: return False, ..., []"
OcrNoTesseract ==
    /\ pc = "ocr_start"
    /\ ~has_tesseract
    /\ result' = [success |-> FALSE, files |-> <<>>]
    /\ pc' = "ocr_done"
    /\ UNCHANGED <<has_tesseract, image_paths, max_workers, pairs, batches, workers,
                   processed_files, failed_files, ocrFrame>>

\* lines 248-292: the pairs, the batches (total_pages // max_workers raises
\* ZeroDivisionError when min(max_workers, total_pages) is 0) and the
\* submission of one worker per batch
OcrSubmit ==
    /\ pc = "ocr_start"
    /\ has_tesseract
    /\ pairs' = Pairs(image_paths)
    /\ max_workers' = PyMin(max_workers, Len(image_paths))
    /\ IF max_workers' = 0
       THEN /\ pc' = "ocr_raised"
            /\ UNCHANGED <<batches, workers>>
       ELSE /\ batches' = Batches(pairs', max_workers', 0, 0, <<>>)
            /\ workers' = [b \in DOMAIN batches' |-> FreshWorker]
            /\ pc' = "ocr_run"
    /\ UNCHANGED <<has_tesseract, image_paths, processed_files, failed_files, result,
                   ocrFrame>>

\* _process_batch_worker, line 23: worker b starts process_image, which
\* writes output_path.txt
WorkerStart(b) ==
    /\ pc = "ocr_run"
    /\ workers[b].pos <= Len(batches[b])
    /\ ~workers[b].writing
    /\ workers' = [workers EXCEPT ![b].writing = TRUE]
    /\ UNCHANGED <<pc, has_tesseract, image_paths, max_workers, pairs, batches,
                   processed_files, failed_files, result, ocrFrame>>

\* _process_batch_worker, lines 23-28: process_image has returned
WorkerFinish(b) ==
    /\ pc = "ocr_run"
    /\ workers[b].writing
    /\ LET pair == batches[b][workers[b].pos]
       IN \E success \in BOOLEAN :
             workers' = [workers EXCEPT
                 ![b].writing = FALSE,
                 ![b].pos = @ + 1,
                 ![b].processed = IF success THEN Append(@, pair.output_path \o ".txt") ELSE @,
                 ![b].failed = IF success THEN @ ELSE Append(@, pair.image)]
    /\ UNCHANGED <<pc, has_tesseract, image_paths, max_workers, pairs, batches,
                   processed_files, failed_files, result, ocrFrame>>

\* lines 293-298: a finished future comes out of as_completed
OcrCollect(b) ==
    /\ pc = "ocr_run"
    /\ workers[b].pos > Len(batches[b])
    /\ ~workers[b].collected
    /\ processed_files' = processed_files \o workers[b].processed
    /\ failed_files' = failed_files \o workers[b].failed
    /\ workers' = [workers EXCEPT ![b].collected = TRUE]
    /\ UNCHANGED <<pc, has_tesseract, image_paths, max_workers, pairs, batches, result,
                   ocrFrame>>

\* lines 300-310: every future is collected
OcrReturn ==
    /\ pc = "ocr_run"
    /\ \A b \in DOMAIN workers : workers[b].collected
    /\ result' = [success |-> failed_files = <<>> \/ Len(processed_files) > 0,
                  files |-> processed_files]
    /\ pc' = "ocr_done"
    /\ UNCHANGED <<has_tesseract, image_paths, max_workers, pairs, batches, workers,
                   processed_files, failed_files, ocrFrame>>

NextOcr ==
    \/ OcrNoTesseract
    \/ OcrSubmit
    \/ \E b \in DOMAIN workers : WorkerStart(b)
    \/ \E b \in DOMAIN workers : WorkerFinish(b)
    \/ \E b \in DOMAIN workers : OcrCollect(b)
    \/ OcrReturn

SpecOcr == InitOcr /\ [][NextOcr]_vars

(***************************************************************************)
(* prompt_for_chapter_pages (main.py)                                      *)
(***************************************************************************)
MaxPromptPage == 4
MaxLineLen == 3

\* validation.py, line 38: validate_page_numbers(page_numbers, max_pages)
\* takes two positional arguments
ValidateParams == 2

\* the characters the operator types
PromptChars == {"1", "2", "3", " ", ",", "x"}

\* the lines the operator enters
PromptLines == SeqsUpTo(PromptChars, MaxLineLen)

\* str.replace(",", " ")
ReplaceCommas(chars) == [x \in DOMAIN chars |-> IF chars[x] = "," THEN " " ELSE chars[x]]

RECURSIVE SplitFrom(_, _, _)
\* str.split(): the words between the runs of spaces
SplitFrom(chars, word, acc) ==
    IF chars = <<>> THEN (IF word = <<>> THEN acc ELSE Append(acc, word))
    ELSE IF Head(chars) = " "
    THEN SplitFrom(Tail(chars), <<>>, IF word = <<>> THEN acc ELSE Append(acc, word))
    ELSE SplitFrom(Tail(chars), Append(word, Head(chars)), acc)

\* line 295: [p.strip() for p in page_input.replace(",", " ").split()]
PromptPages(chars) ==
    LET words == SplitFrom(ReplaceCommas(chars), <<>>, <<>>)
    IN [x \in DOMAIN words |-> Strip(words[x])]

RECURSIVE ValidateFrom(_, _, _, _)
\* validation.py, lines 54-70, from the 0-based index idx on
ValidateFrom(nums, maxp, idx, parsed) ==
    IF idx >= Len(nums)
    THEN IF \E x \in 2..Len(parsed) : OutOfOrder(parsed[x - 1], parsed[x])
         THEN Rejected("Page numbers must be in ascending order")
         ELSE Accepted(parsed)
    ELSE LET num == nums[idx + 1]
             page == PyIntOf(num.chars)
         IN IF num.type = "int" THEN Raised("AttributeError")
            ELSE IF ~page.ok THEN Rejected("Invalid page number")
            ELSE IF page.value < 1 THEN Rejected("Page number must be positive")
            ELSE IF page.value > maxp THEN Rejected("Page number exceeds maximum")
            ELSE ValidateFrom(nums, maxp, idx + 1, Append(parsed, page.value))

\* validate_page_numbers as a function of its two arguments: what
\* ValidateEmpty, ValidateParse and ValidateOrder compute step by step
validate_page_numbers(nums, maxp) ==
    IF nums = <<>> THEN Rejected("No page numbers provided")
    ELSE ValidateFrom(nums, maxp, 0, <<>>)

\* a call of validate_page_numbers with the positional arguments args: a
\* call with more or fewer arguments than parameters raises TypeError
CallValidate(args) ==
    IF Len(args) # ValidateParams THEN Raised("TypeError")
    ELSE validate_page_numbers(args[1], args[2])

\* a tuple of three elements is true, whatever its first element
Truthy(r) == TRUE

\* the variables prompt_for_chapter_pages does not touch
promptFrame ==
    <<arg_starts, chapter_starts, chapter_titles, chapters, i, groupVars, asmVars,
      procVars, combVars, valVars, dirVars, ocrVars, chapter_descriptions, stdout,
      main_success, output_files, index_path, instructions_path, files_to_include,
      zip_path, exit_code>>

\* the call of main (lines 528-530): max_page is the page count of the PDF
InitPrompt ==
    /\ pc = "prompt_input"
    /\ max_page \in 2..MaxPromptPage
    /\ page_offset \in 0..MaxAsmOffset
    /\ page_input = None
    /\ int_pages = <<>>
    /\ chapter_pages = <<>>
    /\ main_last_chapter_end = 0
    /\ arg_starts = <<>>
    /\ chapter_starts = <<>>
    /\ chapter_titles = None
    /\ chapters = <<>>
    /\ i = 0
    /\ IdleGroups
    /\ IdleAssemble
    /\ IdleProcess
    /\ IdleCombine
    /\ IdleValidate
    /\ IdleProject
    /\ IdleOcr
    /\ chapter_descriptions = <<>>
    /\ stdout = <<>>
    /\ main_success = FALSE
    /\ output_files = <<>>
    /\ index_path = None
    /\ instructions_path = None
    /\ files_to_include = <<>>
    /\ zip_path = None
    /\ exit_code = None

\* lines 285-291: an empty line; the prompt is shown again
PromptEmpty ==
    /\ pc = "prompt_input"
    /\ \E line \in PromptLines :
          /\ Strip(line) = <<>>
          /\ page_input' = Strip(line)
    /\ UNCHANGED <<pc, max_page, page_offset, int_pages, chapter_pages,
                   main_last_chapter_end, promptFrame>>

\* lines 285-296, 347-349: a word of the line is not a number; int() raises
\* ValueError and the prompt is shown again
PromptInvalid ==
    /\ pc = "prompt_input"
    /\ \E line \in PromptLines :
          /\ Strip(line) # <<>>
          /\ \E x \in DOMAIN PromptPages(Strip(line)) : ~PyIntOf(PromptPages(Strip(line))[x]).ok
          /\ page_input' = Strip(line)
    /\ UNCHANGED <<pc, max_page, page_offset, int_pages, chapter_pages,
                   main_last_chapter_end, promptFrame>>

\* lines 285-345: the words of the line are numbers; the pages are validated,
\* shown, confirmed, and returned with the last page
PromptPagesEntered ==
    /\ pc = "prompt_input"
    /\ \E line \in PromptLines :
          LET pages == PromptPages(Strip(line))
              ints == [x \in DOMAIN pages |-> PyIntOf(pages[x]).value]
              checked == CallValidate(<<[x \in DOMAIN ints |-> PyInt(ints[x])], 1,
                                        max_page - page_offset>>)
          IN /\ Strip(line) # <<>>
             /\ \A x \in DOMAIN pages : PyIntOf(pages[x]).ok
             /\ page_input' = Strip(line)
             /\ int_pages' = ints
             /\ IF checked.raised # None
                THEN /\ pc' = "prompt_raised"
                     /\ UNCHANGED <<chapter_pages, main_last_chapter_end>>
                ELSE IF ~Truthy(checked)
                THEN UNCHANGED <<pc, chapter_pages, main_last_chapter_end>>
                ELSE \E confirm \in BOOLEAN, last_page \in 1..MaxPromptPage :
                        LET last_checked ==
                                CallValidate(<<<<PyInt(last_page)>>, ints[Len(ints)] + 1,
                                               max_page - page_offset>>)
                        IN IF ~confirm
                           THEN UNCHANGED <<pc, chapter_pages, main_last_chapter_end>>
                           ELSE /\ last_page > ints[Len(ints)]
                                /\ IF last_checked.raised # None
                                   THEN /\ pc' = "prompt_raised"
                                        /\ UNCHANGED <<chapter_pages, main_last_chapter_end>>
                                   ELSE /\ pc' = "prompt_returned"
                                        /\ chapter_pages' = ints
                                        /\ main_last_chapter_end' = last_page
    /\ UNCHANGED <<max_page, page_offset, promptFrame>>

NextPrompt == PromptEmpty \/ PromptInvalid \/ PromptPagesEntered

SpecPrompt == InitPrompt /\ [][NextPrompt]_vars

(***************************************************************************)
(* main, steps 4 to 6 (main.py, lines 585-685)                             *)
(***************************************************************************)
\* what main prints: the line that opens a step, the message of a step that
\* has succeeded, the error of a step that has failed, the closing lines
Line(kind, text) == [kind |-> kind, text |-> text]

\* lines 587, 612, 628, 640, 658
StepLines ==
    <<Line("step", "Creating chapter files"),
      Line("step", "Creating combined chapter files"),
      Line("step", "Creating index file"),
      Line("step", "Creating instructions file"),
      Line("step", "Creating ZIP archive")>>

RECURSIVE DefaultTitles(_)
\* prompt_for_chapter_titles, lines 367-376: "Chapter k" for an empty entry
DefaultTitles(n) ==
    IF n = 0 THEN <<>> ELSE Append(DefaultTitles(n - 1), "Chapter " \o ToString(n))

\* the titles the operator has entered for n chapters
TitleEntries(n) == {DefaultTitles(n), <<"Intro">> \o Tail(DefaultTitles(n))}

\* prompt_for_chapter_descriptions, lines 393-402: one description for each
\* title, empty when the operator has skipped it
DescriptionEntries(n) == [1..n -> BOOLEAN]

Description(k, entered) == IF entered THEN "about " \o ToString(k) ELSE ""

\* lines 595-597: "chapters[i]["description"] = desc" for the i-th description
AddDescriptions(chs, descs) ==
    [x \in DOMAIN chs |->
        IF x <= Len(descs)
        THEN [k \in DOMAIN chs[x] \cup {"description"} |->
                 IF k = "description" THEN descs[x] ELSE chs[x][k]]
        ELSE chs[x]]

\* a slip in lines 603-605 (621-623, 633-635, 649-651): no "return 1"
ContinueAlways(ok, nextpc) == nextpc

\* lines 603-605 (621-623, 633-635, 649-651): "if not success: ... return 1"
Continue(ok, nextpc) == IF ok THEN nextpc ELSE "main_exit"

\* the lines printed after a step: its message, then the line that opens the
\* next step; or the error
AfterStep(ok, message, opening) ==
    IF ok THEN <<Line("message", message)>> \o opening
    ELSE <<Line("error", message)>>

\* a slip in organizer.py, line 415: the chapters argument itself is
\* filtered to the members of the group
RenderedChaptersFiltered(chs, grps) ==
    IF grps = <<>> THEN chs
    ELSE SelectSeq(chs, LAMBDA ch : \E x \in DOMAIN grps[Len(grps)].chapters :
                                        grps[Len(grps)].chapters[x] = ch.number)

\* organizer.py, lines 415-418, 616-618, 656-658: the members of a group are
\* collected in a new list, and it is that list that is sorted: the
\* chapters argument is after the call what it was before
RenderedChapters(chs, grps) == chs

\* organizer.py, lines 534-572: create_combined_files, when create_combined_file
\* fails for the groups at the positions of failing
CombinedFiles(grps, chs, failing) ==
    IF grps = <<>> \/ chs = <<>>
    THEN [success |-> FALSE, message |-> "No groups or chapters to process",
          output_files |-> <<>>]
    ELSE LET made == SelectSeq([x \in DOMAIN grps |-> <<x, grps[x]>>],
                               LAMBDA e : e[1] \notin failing)
             files == [x \in DOMAIN made |-> <<made[x][2], OutputFilename(made[x][2])>>]
         IN IF failing # {}
            THEN [success |-> Len(files) > 0,
                  message |-> "Combined file creation completed with failures",
                  output_files |-> files]
            ELSE [success |-> TRUE,
                  message |-> "Successfully created all combined files",
                  output_files |-> files]

\* the groups for which create_combined_file fails: none, all, or one
CombineFailures(grps) == {{}, DOMAIN grps} \cup {{x} : x \in DOMAIN grps}

\* lines 661-669: the files of the archive
FilesToInclude(files, index, instructions) ==
    [x \in DOMAIN files |-> files[x][2]]
        \o (IF index # None THEN <<index>> ELSE <<>>)
        \o (IF instructions # None THEN <<instructions>> ELSE <<>>)

\* the variables steps 4 to 6 of main do not touch
mainFrame ==
    <<arg_starts, chapter_starts, max_page, i, chapter, outfile, char_count, page_num,
      group, chapters_dir, group_chapters, group_pos, valVars, dirVars, ocrVars,
      page_input, int_pages>>

\* the text files step 3 has left for the pages: readable or not
MainPageFiles == {f \in ProcPageFiles : f.kind # "missing"}

\* the variables of step 6
zipVars == <<files_to_include, zip_path>>

\* line 585: what the prompts have handed over (lines 525-538): the page
\* offset, ascending start pages, the last page of the final chapter after
\* the last start, a title and a description for each start page; and the
\* text files step 3 has left
InitMain ==
    /\ pc = "main_step4"
    /\ page_offset \in 0..MaxAsmOffset
    /\ chapter_pages \in AscendingFrom(1) \ {<<>>}
    /\ main_last_chapter_end \in (chapter_pages[Len(chapter_pages)] + 1)..(MaxProcPage + 1)
    /\ chapter_titles \in TitleEntries(Len(chapter_pages))
    /\ \E entered \in DescriptionEntries(Len(chapter_pages)) :
          chapter_descriptions = [k \in 1..Len(chapter_pages) |-> Description(k, entered[k])]
    /\ text_dir \in [1..(MaxProcPage + 2) -> MainPageFiles]
    /\ output_dir \in OutputFailures(parse_chapter_locations(chapter_pages, chapter_titles,
                                                             main_last_chapter_end + 1,
                                                             page_offset))
    /\ chapters = <<>>
    /\ i = 0
    /\ processed_chapters = <<>>
    /\ failed_chapters = <<>>
    /\ result = None
    /\ arg_starts = <<>>
    /\ chapter_starts = <<>>
    /\ max_page = 0
    /\ max_combined_files = 0
    /\ prefix_sum = <<>>
    /\ dp = <<>>
    /\ partition = <<>>
    /\ groups = <<>>
    /\ current = 0
    /\ remaining = 0
    /\ formatted_groups = <<>>
    /\ chapter = None
    /\ outfile = <<>>
    /\ char_count = 0
    /\ page_num = 0
    /\ IdleCombine
    /\ IdleValidate
    /\ IdleProject
    /\ IdleOcr
    /\ page_input = <<>>
    /\ int_pages = <<>>
    /\ stdout = <<>>
    /\ main_success = FALSE
    /\ output_files = <<>>
    /\ index_path = None
    /\ instructions_path = None
    /\ files_to_include = <<>>
    /\ zip_path = None
    /\ exit_code = None

\* lines 585-592: step 4 opens; the chapter records are derived
MainParse ==
    /\ pc = "main_step4"
    /\ stdout' = Append(stdout, StepLines[1])
    /\ chapters' = parse_chapter_locations(chapter_pages, chapter_titles,
                                           main_last_chapter_end + 1, page_offset)
    /\ pc' = "main_describe"
    /\ UNCHANGED <<chapter_titles, page_offset, groupVars, text_dir, result, procVars,
                   chapter_pages, main_last_chapter_end, chapter_descriptions,
                   main_success, output_files, index_path, instructions_path, zipVars,
                   exit_code, mainFrame>>

\* lines 594-599: the descriptions are attached; process_chapters is called
MainDescribe ==
    /\ pc = "main_describe"
    /\ chapters' = AddDescriptions(chapters, chapter_descriptions)
    /\ pc' = "proc_start"
    /\ UNCHANGED <<chapter_titles, page_offset, groupVars, text_dir, result, procVars,
                   chapter_pages, main_last_chapter_end, chapter_descriptions, stdout,
                   main_success, output_files, index_path, instructions_path, zipVars,
                   exit_code, mainFrame>>

\* lines 599-615: process_chapters has returned; on success step 5 opens and
\* the processed chapters go to optimize_chapter_groups (the organizer's
\* max_combined_files is 9 in main; it is 1..MaxK here)
MainChaptersDone ==
    /\ pc = "proc_done"
    /\ main_success' = result.success
    /\ stdout' = stdout \o AfterStep(result.success, result.message.kind, <<StepLines[2]>>)
    /\ pc' = Continue(result.success, "groups_start")
    /\ IF result.success
       THEN /\ max_combined_files' \in 1..MaxK
            /\ UNCHANGED exit_code
       ELSE /\ exit_code' = 1
            /\ UNCHANGED max_combined_files
    /\ UNCHANGED <<chapter_titles, page_offset, chapters, processed_chapters, prefix_sum,
                   dp, partition, groups, current, remaining, formatted_groups, text_dir,
                   result, procVars, chapter_pages, main_last_chapter_end,
                   chapter_descriptions, output_files, index_path, instructions_path,
                   zipVars, mainFrame>>

\* lines 615-628: optimize_chapter_groups has returned; create_combined_files
MainCombine ==
    /\ pc = "groups_done"
    /\ \E failing \in CombineFailures(formatted_groups) :
          LET r == CombinedFiles(formatted_groups, processed_chapters, failing)
          IN /\ main_success' = r.success
             /\ output_files' = r.output_files
             /\ stdout' = stdout \o AfterStep(r.success, r.message, <<StepLines[3]>>)
             /\ pc' = Continue(r.success, "main_index")
             /\ exit_code' = IF r.success THEN exit_code ELSE 1
    /\ processed_chapters' = RenderedChapters(processed_chapters, formatted_groups)
    /\ UNCHANGED <<chapter_titles, page_offset, chapters, max_combined_files, prefix_sum,
                   dp, partition, groups, current, remaining, formatted_groups, text_dir,
                   result, procVars, chapter_pages, main_last_chapter_end,
                   chapter_descriptions, index_path, instructions_path, zipVars,
                   mainFrame>>

\* lines 629-640: create_index_file; it fails when the file cannot be written
MainIndex ==
    /\ pc = "main_index"
    /\ \E ok \in BOOLEAN :
          /\ main_success' = ok
          /\ index_path' = IF ok THEN "index.txt" ELSE None
          /\ stdout' = stdout \o AfterStep(ok, IF ok THEN "Successfully created index file"
                                                ELSE "Error creating index file",
                                           <<StepLines[4]>>)
          /\ pc' = Continue(ok, "main_instructions")
          /\ exit_code' = IF ok THEN exit_code ELSE 1
    /\ processed_chapters' = RenderedChapters(processed_chapters, formatted_groups)
    /\ UNCHANGED <<chapter_titles, page_offset, chapters, max_combined_files, prefix_sum,
                   dp, partition, groups, current, remaining, formatted_groups, text_dir,
                   result, procVars, chapter_pages, main_last_chapter_end,
                   chapter_descriptions, output_files, instructions_path, zipVars,
                   mainFrame>>

\* lines 641-658: create_instructions_file; on success step 6 opens
MainInstructions ==
    /\ pc = "main_instructions"
    /\ \E ok \in BOOLEAN :
          /\ main_success' = ok
          /\ instructions_path' = IF ok THEN "instructions.txt" ELSE None
          /\ stdout' = stdout \o AfterStep(ok, IF ok
                                                THEN "Successfully created instructions file"
                                                ELSE "Error creating instructions file",
                                           <<StepLines[5]>>)
          /\ pc' = Continue(ok, "main_zip")
          /\ exit_code' = IF ok THEN exit_code ELSE 1
    /\ UNCHANGED <<chapter_titles, page_offset, chapters, groupVars, text_dir,
                   result, procVars, chapter_pages, main_last_chapter_end,
                   chapter_descriptions, output_files, index_path, zipVars, mainFrame>>

\* lines 660-685: the archive of the bundles, the index and the instructions
MainZip ==
    /\ pc = "main_zip"
    /\ files_to_include' = FilesToInclude(output_files, index_path, instructions_path)
    /\ zip_path' = "book_combined.zip"
    /\ stdout' = stdout \o <<Line("message", "ZIP archive created"),
                             Line("done", "Processing complete!")>>
    /\ exit_code' = 0
    /\ pc' = "main_exit"
    /\ UNCHANGED <<chapter_titles, page_offset, chapters, groupVars, text_dir,
                   result, procVars, chapter_pages, main_last_chapter_end,
                   chapter_descriptions, main_success, output_files, index_path,
                   instructions_path, mainFrame>>

NextMain ==
    \/ MainParse \/ MainDescribe
    \/ ProcessStart \/ ProcessChapter \/ ProcessReturn
    \/ MainChaptersDone
    \/ GroupsSingletons \/ GroupsFill \/ GroupsWalk \/ GroupsFormat
    \/ MainCombine \/ MainIndex \/ MainInstructions \/ MainZip

SpecMain == InitMain /\ [][NextMain]_vars

(***************************************************************************)
(* Properties of parse_chapter_locations (checked under SpecParse)         *)
(***************************************************************************)
\* a valid input: a non-empty strictly ascending list of start pages, each
\* in [1, max_page], max_page >= 1 and page_offset >= 0
ValidParseInput ==
    /\ arg_starts # <<>>
    /\ max_page >= 1
    /\ page_offset >= 0
    /\ \A x \in 1..Len(arg_starts) : arg_starts[x] >= 1 /\ arg_starts[x] <= max_page
    /\ \A x \in 1..(Len(arg_starts) - 1) : arg_starts[x] < arg_starts[x + 1]

\* the physical pages of a chapter record
PagesOf(ch) == ch.start_page..ch.end_page

\* C1: for every valid input the returned chapters' physical ranges lie in
\* [1, max_page], are pairwise disjoint, and every page of [1, max_page] is
\* in exactly one of them.
C1_ChaptersCoverEveryPageOnce ==
    (pc = "parse_done" /\ ValidParseInput) =>
        /\ \A x \in DOMAIN chapters : PagesOf(chapters[x]) \subseteq 1..max_page
        /\ \A x, y \in DOMAIN chapters :
              x # y => PagesOf(chapters[x]) \cap PagesOf(chapters[y]) = {}
        /\ \A pg \in 1..max_page :
              Cardinality({x \in DOMAIN chapters : pg \in PagesOf(chapters[x])}) = 1

\* front matter, two chapters and back matter have been derived
C1_Witness ==
    /\ pc = "parse_done"
    /\ ValidParseInput
    /\ Len(chapters) = 4
    /\ chapters[1].number = 0
    /\ chapters[4].number = 3
    /\ chapters[2].end_page > chapters[2].start_page

\* C2 (as claimed): for every valid input, the last start page equal to
\* max_page included, every returned chapter has end_page >= start_page and
\* each chapter starts after the previous one ends.
C2_EndNotBeforeStart ==
    (pc = "parse_done" /\ ValidParseInput) =>
        /\ \A x \in DOMAIN chapters : chapters[x].end_page >= chapters[x].start_page
        /\ \A x \in 2..Len(chapters) :
              chapters[x].start_page > chapters[x - 1].end_page

\* C3: every returned chapter (front matter, chapters, back matter) has
\* book pages = physical pages - page_offset when page_offset > 0, and
\* book pages = physical pages when page_offset <= 0.
C3_BookPagesFollowOffset ==
    (pc = "parse_done" /\ max_page >= 1) =>
        \A x \in DOMAIN chapters :
            LET c == chapters[x]
            IN IF page_offset > 0
               THEN /\ c.book_start_page = c.start_page - page_offset
                    /\ c.book_end_page = c.end_page - page_offset
               ELSE /\ c.book_start_page = c.start_page
                    /\ c.book_end_page = c.end_page

\* with an offset, a front matter whose book pages are all <= 0, chapters
\* and back matter
C3_Witness ==
    /\ pc = "parse_done"
    /\ ValidParseInput
    /\ page_offset > 0
    /\ Len(chapters) >= 3
    /\ chapters[1].number = 0
    /\ chapters[1].book_end_page <= 0
    /\ chapters[Len(chapters)].title = "Back Matter"

\* the chapter record numbered num of the returned list
ChapterNumbered(num) ==
    chapters[CHOOSE x \in DOMAIN chapters : chapters[x].number = num]

\* the pages of a returned record, in both numberings
Bounds(c) == <<c.start_page, c.end_page, c.book_start_page, c.book_end_page>>

\* the numbers of the returned records, in list order
Numbers == [x \in DOMAIN chapters |-> chapters[x].number]

\* C11: for a non-empty start list of N entries and max_page >= 1, the
\* chapter numbered k starts on the k-th start page (in ascending order);
\* it ends one page before the next start page, the last one on
\* max_page - 1; the last record is the back matter, numbered N + 1, on
\* page max_page alone. Starts [1, 10, 25] with 30 pages give 1-9, 10-24,
\* 25-29 and back matter 30; starts [1, 10] with 20 pages give 3 records.
C11_ChapterEndsAndBackMatter ==
    (pc = "parse_done" /\ arg_starts # <<>> /\ max_page >= 1) =>
        LET N == Len(arg_starts)
            back == chapters[Len(chapters)]
        IN /\ \A k \in 1..N :
                 \E x \in DOMAIN chapters :
                    /\ chapters[x].number = k
                    /\ Cardinality({y \in 1..N : arg_starts[y] < chapters[x].start_page}) < k
                    /\ Cardinality({y \in 1..N : arg_starts[y] <= chapters[x].start_page}) >= k
                    /\ chapters[x].end_page =
                          IF k < N THEN chapters[x + 1].start_page - 1 ELSE max_page - 1
           /\ back.number = N + 1
           /\ back.title = "Back Matter"
           /\ back.start_page = max_page /\ back.end_page = max_page
           /\ (arg_starts = <<1, 10, 25>> /\ max_page = 30 /\ page_offset = 0) =>
                 [x \in DOMAIN chapters |-> <<chapters[x].start_page, chapters[x].end_page>>]
                    = <<(<<1, 9>>), (<<10, 24>>), (<<25, 29>>), (<<30, 30>>)>>
           /\ (arg_starts = <<1, 10>> /\ max_page = 20) => Len(chapters) = 3

\* the scenario of starts [1, 10, 25] and 30 pages has been derived
C11_Witness ==
    /\ pc = "parse_done"
    /\ arg_starts = <<1, 10, 25>>
    /\ max_page = 30
    /\ Len(chapters) = 4
    /\ chapters[3].end_page = 29

\* C12: starts [5, 15], 20 pages, offset 4 give exactly four records:
\* front matter 0 on 1-4 (book -3..0), chapter 1 on 5-14 (book 1-10),
\* chapter 2 on 15-19 (book 11-15), back matter 3 on 20 (book 16).
C12_OffsetScenario ==
    (pc = "parse_done" /\ arg_starts = <<5, 15>> /\ max_page = 20 /\ page_offset = 4) =>
        /\ Numbers = <<0, 1, 2, 3>>
        /\ Bounds(chapters[1]) = <<1, 4, 0 - 3, 0>>
        /\ Bounds(chapters[2]) = <<5, 14, 1, 10>>
        /\ Bounds(chapters[3]) = <<15, 19, 11, 15>>
        /\ Bounds(chapters[4]) = <<20, 20, 16, 16>>
        /\ chapters[1].title = "Front Matter"
        /\ chapters[4].title = "Back Matter"

\* the scenario has been derived
C12_Witness ==
    /\ pc = "parse_done"
    /\ arg_starts = <<5, 15>>
    /\ max_page = 20
    /\ page_offset = 4
    /\ Len(chapters) = 4

\* C14: for a non-empty start list of N entries and max_page >= 1, the
\* returned numbers are strictly increasing; they are 1..N and N + 1 (the
\* back matter, last), and 0 (the front matter, first) exactly when the
\* first start page is > 1; chapters 1..N are in ascending page order.
C14_Numbering ==
    (pc = "parse_done" /\ arg_starts # <<>> /\ max_page >= 1) =>
        LET N == Len(arg_starts)
            front == \A y \in 1..N : arg_starts[y] > 1
        IN /\ \A x \in 1..(Len(chapters) - 1) : Numbers[x] < Numbers[x + 1]
           /\ {Numbers[x] : x \in DOMAIN chapters}
                 = (IF front THEN {0} ELSE {}) \cup (1..(N + 1))
           /\ front <=> chapters[1].title = "Front Matter"
           /\ chapters[Len(chapters)].number = N + 1
           /\ \A k \in 1..(N - 1) :
                 ChapterNumbered(k).start_page <= ChapterNumbered(k + 1).start_page

\* front matter, three chapters and back matter
C14_Witness ==
    /\ pc = "parse_done"
    /\ ValidParseInput
    /\ Numbers = <<0, 1, 2, 3, 4>>

\* C15: whatever the title list (None, shorter, as long, longer), the
\* chapter numbered k has the k-th supplied title when there is one and it
\* is not empty, and "Chapter k" otherwise; its start page is the k-th
\* start page whatever the titles are.
C15_Titles ==
    (pc = "parse_done" /\ arg_starts # <<>>) =>
        \A k \in 1..Len(arg_starts) :
            LET c == ChapterNumbered(k)
                supplied == IF chapter_titles = None THEN FALSE
                            ELSE k <= Len(chapter_titles) /\ chapter_titles[k] # ""
            IN /\ c.title = IF supplied THEN chapter_titles[k]
                            ELSE "Chapter " \o ToString(k)
               /\ c.start_page = sorted(arg_starts)[k]

\* three chapters and two titles, the first of them empty
C15_Witness ==
    /\ pc = "parse_done"
    /\ ValidParseInput
    /\ Len(arg_starts) = 3
    /\ chapter_titles = <<"", "Main">>
    /\ ChapterNumbered(1).title = "Chapter 1"
    /\ ChapterNumbered(2).title = "Main"
    /\ ChapterNumbered(3).title = "Chapter 3"

\* C16: with an empty start list the call returns the empty list, at
\* once and without raising, whatever the titles, max_page and offset.
C16_EmptyStartsGiveNoChapters ==
    arg_starts = <<>> =>
        /\ pc \in {"parse_start", "parse_done"}
        /\ chapters = <<>>
        /\ pc = "parse_start" => ENABLED ParseEmpty

\* the empty list returned for a call with titles, pages and an offset
C16_Witness ==
    /\ pc = "parse_done"
    /\ arg_starts = <<>>
    /\ chapter_titles = <<"Intro">>
    /\ max_page > 0
    /\ page_offset > 0
    /\ chapters = <<>>

(***************************************************************************)
(* Properties of optimize_chapter_groups (checked under SpecGroups)        *)
(***************************************************************************)
NumChapters == Len(processed_chapters)

\* the char_count of the chapter numbered num
WeightOf(num) ==
    LET x == CHOOSE y \in DOMAIN processed_chapters : processed_chapters[y].number = num
    IN processed_chapters[x].char_count

RECURSIVE SumWeights(_)
\* the total char_count of a list of chapter numbers
SumWeights(nums) == IF nums = <<>> THEN 0 ELSE WeightOf(Head(nums)) + SumWeights(Tail(nums))

\* the largest element of a non-empty set of numbers
SetMax(S) == CHOOSE m \in S : \A o \in S : o <= m
SetMin(S) == CHOOSE m \in S : \A o \in S : m <= o

\* the maximum group weight of a returned partition
MaxGroupWeight(fgs) == SetMax({SumWeights(fgs[x].chapters) : x \in DOMAIN fgs})

RECURSIVE SumRange(_, _)
\* the total char_count of the chapters at positions lo..hi
SumRange(lo, hi) ==
    IF lo > hi THEN 0 ELSE processed_chapters[lo].char_count + SumRange(lo + 1, hi)

\* the maximum block weight of the partition whose blocks end at the
\* positions of ends (a set that holds the last position)
MaxBlockWeight(ends) ==
    SetMax({SumRange(SetMax({0} \cup {o \in ends : o < e}) + 1, e) : e \in ends})

\* exhaustive search: the least maximum block weight over all partitions
\* of the chapter list into m contiguous non-empty blocks
BestMaxWeight(m) ==
    SetMin({MaxBlockWeight(c \cup {NumChapters}) :
               c \in {d \in SUBSET (1..(NumChapters - 1)) : Cardinality(d) = m - 1}})

\* C4: with more chapters than files, the maximum group weight of the
\* returned partition is the minimum over all partitions into
\* max_combined_files contiguous non-empty groups.
C4_PartitionIsOptimal ==
    (pc = "groups_done" /\ NumChapters > max_combined_files) =>
        MaxGroupWeight(formatted_groups) = BestMaxWeight(max_combined_files)

\* an optimum that an even or a greedy split misses: groups of different
\* sizes, and a maximum below the total
C4_Witness ==
    /\ pc = "groups_done"
    /\ NumChapters > max_combined_files
    /\ max_combined_files >= 2
    /\ \E x, y \in DOMAIN formatted_groups :
          Len(formatted_groups[x].chapters) > Len(formatted_groups[y].chapters) + 1
    /\ MaxGroupWeight(formatted_groups) > 0
    /\ MaxGroupWeight(formatted_groups) < SumRange(1, NumChapters)

\* C5: with more chapters than files, exactly max_combined_files groups
\* are returned and none is empty, zero char_counts included.
C5_ExactlyKNonEmptyGroups ==
    (pc = "groups_done" /\ NumChapters > max_combined_files) =>
        /\ Len(formatted_groups) = PyMin(max_combined_files, NumChapters)
        /\ Len(formatted_groups) = max_combined_files
        /\ \A x \in DOMAIN formatted_groups : Len(formatted_groups[x].chapters) >= 1

\* several groups out of chapters that all weigh 0
C5_Witness ==
    /\ pc = "groups_done"
    /\ NumChapters > max_combined_files
    /\ max_combined_files >= 2
    /\ \A x \in DOMAIN processed_chapters : processed_chapters[x].char_count = 0
    /\ Len(formatted_groups) = max_combined_files

RECURSIVE Flatten(_)
\* the groups' chapter lists, concatenated in group order
Flatten(fgs) == IF fgs = <<>> THEN <<>> ELSE Head(fgs).chapters \o Flatten(Tail(fgs))

\* C6: for every non-empty chapter list, the groups' chapter lists read
\* in order are exactly the input's chapter numbers.
C6_GroupsPartitionTheList ==
    (pc = "groups_done" /\ processed_chapters # <<>>) =>
        Flatten(formatted_groups) =
            [x \in 1..NumChapters |-> processed_chapters[x].number]

\* a partition with a group of several chapters, of a list whose numbers
\* start at 0 and have a gap
C6_Witness ==
    /\ pc = "groups_done"
    /\ NumChapters > max_combined_files
    /\ processed_chapters[1].number = 0
    /\ processed_chapters[NumChapters].number > NumChapters - 1
    /\ Len(formatted_groups) >= 2
    /\ \E x \in DOMAIN formatted_groups : Len(formatted_groups[x].chapters) >= 2

\* C7: with no more chapters than files, the i-th group is the singleton
\* of the i-th chapter, whatever the char_counts.
C7_SingletonGroups ==
    (pc = "groups_done" /\ processed_chapters # <<>>
                        /\ NumChapters <= max_combined_files) =>
        /\ Len(formatted_groups) = NumChapters
        /\ \A x \in DOMAIN formatted_groups :
              formatted_groups[x].chapters = <<processed_chapters[x].number>>

\* as many chapters as files, of different weights
C7_Witness ==
    /\ pc = "groups_done"
    /\ NumChapters = max_combined_files
    /\ NumChapters >= 2
    /\ processed_chapters[1].char_count = 0
    /\ processed_chapters[2].char_count > 0
    /\ Len(formatted_groups) = NumChapters

\* C13: nine chapters of 100 characters and three files give three groups
\* of three consecutive chapters, of maximum weight 300.
C13_NineChaptersThreeFiles ==
    (/\ pc = "groups_done"
     /\ processed_chapters = [x \in 1..9 |-> [number |-> x, char_count |-> 100]]
     /\ max_combined_files = 3) =>
        /\ [x \in DOMAIN formatted_groups |-> formatted_groups[x].chapters]
              = <<(<<1, 2, 3>>), (<<4, 5, 6>>), (<<7, 8, 9>>)>>
        /\ MaxGroupWeight(formatted_groups) = 300

\* the scenario has been partitioned
C13_Witness ==
    /\ pc = "groups_done"
    /\ Len(processed_chapters) = 9
    /\ processed_chapters[9].char_count = 100
    /\ max_combined_files = 3
    /\ Len(formatted_groups) = 3

\* C17: for a non-empty chapter list and max_combined_files >= 1 the call
\* never fails: every table entry the walk reads is in the tables, its dp
\* value was filled in (it is not inf) and its cut lies before the walk's
\* position, so that the chapters it indexes exist, leaving at least one
\* chapter for each group still to come; and the call returns groups.
C17_PartitionerNeverFails ==
    (processed_chapters # <<>> /\ max_combined_files >= 1) =>
        /\ pc \in {"groups_start", "groups_walk", "groups_done"}
        /\ (pc = "groups_walk" /\ current > 0 /\ remaining > 0) =>
              /\ current \in DOMAIN partition /\ current \in DOMAIN dp
              /\ remaining \in DOMAIN partition[current]
              /\ dp[current][remaining] < Inf
              /\ partition[current][remaining] >= remaining - 1
              /\ partition[current][remaining] < current
        /\ pc = "groups_walk" => (current = 0 <=> remaining = 0)
        /\ pc = "groups_done" => formatted_groups # <<>>

\* a walk under way with one file (K = 1), and one with K = n - 1
C17_Witness ==
    /\ pc = "groups_walk"
    /\ max_combined_files = Len(processed_chapters) - 1
    /\ max_combined_files >= 2
    /\ remaining = 1
    /\ current >= 1

(***************************************************************************)
(* Properties of process_chapter (checked under SpecAssemble)              *)
(***************************************************************************)
ChapterPages == chapter.start_page..chapter.end_page

\* the output file was created: the header is the first thing written
OutputCreated == outfile # <<>>

\* the text process_chapter reads from a readable page file
PageText(f) == IF Utf8Decode(f.bytes).ok THEN Utf8Decode(f.bytes).text ELSE f.bytes

\* the three records of page pg in the chapter file
RecordsOf(pg) ==
    LET base == 1 + 3 * (pg - chapter.start_page)
    IN <<outfile[base + 1], outfile[base + 2], outfile[base + 3]>>

\* C8: when every page of the chapter is either present or missing from
\* text_dir and the output file can be created, process_chapter reports
\* success and the file holds, after the header, for each page in
\* ascending order: its BEGIN marker, the page's text when present and one
\* warning placeholder when missing, and its END marker.
C8_MissingPagesGetPlaceholders ==
    (/\ pc = "asm_done"
     /\ OutputCreated
     /\ \A pg \in ChapterPages : text_dir[pg].kind \in {"file", "missing"}) =>
        /\ result.success
        /\ Len(outfile) = 1 + 3 * Cardinality(ChapterPages)
        /\ \A pg \in ChapterPages :
              LET r == RecordsOf(pg)
              IN /\ r[1].kind = "begin" /\ r[1].page = pg
                 /\ r[3].kind = "end" /\ r[3].page = pg
                 /\ r[2].page = pg
                 /\ IF text_dir[pg].kind = "missing"
                    THEN r[2].kind = "warning"
                    ELSE r[2].kind = "text" /\ r[2].text = PageText(text_dir[pg])

\* a chapter of three pages whose middle page is missing
C8_Witness ==
    /\ pc = "asm_done"
    /\ result.success
    /\ chapter.end_page = chapter.start_page + 2
    /\ text_dir[chapter.start_page].kind = "file"
    /\ text_dir[chapter.start_page + 1].kind = "missing"
    /\ text_dir[chapter.end_page].kind = "file"
    /\ text_dir[chapter.end_page].bytes # <<>>
    /\ outfile[6].kind = "warning"

RECURSIVE TextWritten(_)
\* the total length of the page texts in a chapter file
TextWritten(recs) ==
    IF recs = <<>> THEN 0
    ELSE (IF Head(recs).kind = "text" THEN Len(Head(recs).text) ELSE 0)
         + TextWritten(Tail(recs))

RECURSIVE TextAvailable(_, _)
\* the total length of the texts of the readable pages lo..hi
TextAvailable(lo, hi) ==
    IF lo > hi THEN 0
    ELSE (IF text_dir[lo].kind = "file" THEN Len(PageText(text_dir[lo])) ELSE 0)
         + TextAvailable(lo + 1, hi)

\* C9: the char_count of a successful process_chapter is the total length
\* of the page texts written to the chapter file, which is the total
\* length of the texts of the chapter's readable pages; the header, the
\* markers, the placeholders and the missing pages add nothing.
C9_CharCountIsTextWritten ==
    (pc = "asm_done" /\ result.success) =>
        /\ result.char_count = TextWritten(outfile)
        /\ result.char_count = TextAvailable(chapter.start_page, chapter.end_page)

\* a chapter with a missing page, a page of one two-byte character and
\* a page decoded under the fallback encoding
C9_Witness ==
    /\ pc = "asm_done"
    /\ result.success
    /\ result.char_count = 3
    /\ \E pg \in ChapterPages : text_dir[pg].kind = "missing"
    /\ \E pg \in ChapterPages : text_dir[pg] = [kind |-> "file", bytes |-> <<195, 169>>]
    /\ \E pg \in ChapterPages : text_dir[pg] = [kind |-> "file", bytes |-> <<65, 255>>]

\* C10 (as claimed): process_chapter fails only when the output location
\* cannot be created; whatever the page files are (present, missing,
\* undecodable, unreadable), it succeeds once the output file is created.
C10_OnlyOutputFailureIsFatal ==
    (pc = "asm_done" /\ OutputCreated) => result.success

(***************************************************************************)
(* Properties of process_chapters (checked under SpecProcess)              *)
(***************************************************************************)
\* the number of failures a returned message states: the count of the
\* "completed with failures" message, none for the two other messages
FailuresReported(message) ==
    IF message.kind = "Chapter processing completed with failures"
    THEN message.failures
    ELSE 0

\* the chapter of number num is in the list of processed chapters
Processed(num) == \E x \in DOMAIN processed_chapters : processed_chapters[x].number = num

\* the chapter of number num is in the list of failures
Failed(num) == \E x \in DOMAIN failed_chapters : failed_chapters[x][1].number = num

\* C19: process_chapters attempts every chapter of its input whatever
\* happened to the earlier ones (after i iterations the first i chapters are
\* each in the processed list or in the failure list, those that
\* process_chapter succeeds on in the first, and the loop ends only at the end
\* of the input), and it returns the processed chapters together with a
\* number of failures that is the input length minus the number of returned
\* chapters.
C19_EveryChapterAttempted ==
    pc \in {"proc_loop", "proc_done"} =>
        /\ Len(processed_chapters) + Len(failed_chapters) = i
        /\ \A k \in 1..i :
              LET r == process_chapter(chapters[k], text_dir, output_dir)
              IN /\ r.success <=> Processed(chapters[k].number)
                 /\ ~r.success <=> Failed(chapters[k].number)
        /\ pc = "proc_done" =>
              /\ i = Len(chapters)
              /\ result.processed_chapters = processed_chapters
              /\ FailuresReported(result.message) = Len(failed_chapters)
              /\ FailuresReported(result.message) =
                     Len(chapters) - Len(result.processed_chapters)

\* a call where the first chapter fails, a later one succeeds and another
\* one fails after it
C19_Witness ==
    /\ pc = "proc_done"
    /\ Len(chapters) >= 3
    /\ Failed(chapters[1].number)
    /\ Processed(chapters[2].number)
    /\ Failed(chapters[3].number)
    /\ result.message.failures = 2

(***************************************************************************)
(* Properties of create_combined_file (checked under SpecCombine)          *)
(***************************************************************************)
\* the output file of the bundle was created and its header is written
BundleCreated == outfile # <<>>

\* the members of the group: the chapters whose number the group lists, in
\* the order of their numbers
Members == GroupChapters(group, chapters)

\* the content of chapter file f, whichever decoding gave it
ChapterContent(f) ==
    IF Utf8Decode(f.bytes).ok THEN Utf8Decode(f.bytes).text ELSE Latin1Decode(f.bytes)

\* the records of the bundle about the chapter of number num
BundleRecordsOf(num) ==
    SelectSeq(outfile, LAMBDA rec : rec.kind # "header" /\ rec.chapter = num)

\* C18: once the bundle's output file is created, create_combined_file
\* returns success whatever the state of the members' content files, and
\* the bundle holds, for each member, its content when its file can be read
\* and a warning placeholder when the file is missing, cannot be decoded or
\* cannot be read otherwise.
C18_MemberReadFailuresRecovered ==
    (pc = "comb_done" /\ BundleCreated) =>
        /\ result.success
        /\ \A k \in DOMAIN Members :
              LET num == Members[k].number
                  f == chapters_dir[num]
              IN IF f.kind = "file"
                 THEN BundleRecordsOf(num) = <<ChapterText(num, ChapterContent(f))>>
                 ELSE /\ Len(BundleRecordsOf(num)) = 1
                      /\ BundleRecordsOf(num)[1].kind = "warning"

\* C20: the header of a bundle states the page span in both numberings
\* exactly when some member has page_offset > 0 and in physical pages only
\* otherwise, and the physical span runs from the first member's start_page
\* to the last member's end_page.
C20_HeaderPageSpan ==
    BundleCreated =>
        LET header == outfile[1]
        IN /\ header.kind = "header"
           /\ header.dual <=> \E k \in DOMAIN Members : Members[k].page_offset > 0
           /\ ~header.dual => header.book_pages = None
           /\ header.dual => DOMAIN header.book_pages = 1..2
           /\ header.pages = <<Members[1].start_page, Members[Len(Members)].end_page>>

\* a bundle of several members, one with an offset and one without
C20_Witness ==
    /\ pc = "comb_done"
    /\ result.success
    /\ outfile[1].dual
    /\ Len(group_chapters) >= 2
    /\ \E k \in DOMAIN group_chapters : group_chapters[k].page_offset = 0

\* C21: in every returned list of groups (one chapter per group, or the
\* groups of the partition) the i-th group carries the two-digit label of i,
\* and its description is "Chapter X" when it has one chapter and
\* "Chapters X-Y" otherwise, X and Y being the numbers of its first and of
\* its last chapter.
C21_DescriptionsAndLabels ==
    pc = "groups_done" =>
        \A x \in DOMAIN formatted_groups :
            LET g == formatted_groups[x]
                first == g.chapters[1]
                last == g.chapters[Len(g.chapters)]
            IN /\ g.file = (IF x < 10 THEN "0" ELSE "") \o ToString(x)
               /\ \E k \in DOMAIN processed_chapters : processed_chapters[k].number = first
               /\ \E k \in DOMAIN processed_chapters : processed_chapters[k].number = last
               /\ g.desc = IF Len(g.chapters) = 1
                           THEN "Chapter " \o ToString(first)
                           ELSE "Chapters " \o ToString(first) \o "-" \o ToString(last)

\* a partition with a group of one chapter and a group of several
C21_Witness ==
    /\ pc = "groups_done"
    /\ Len(processed_chapters) > max_combined_files
    /\ \E x \in DOMAIN formatted_groups : Len(formatted_groups[x].chapters) = 1
    /\ \E x \in DOMAIN formatted_groups : Len(formatted_groups[x].chapters) >= 2

(***************************************************************************)
(* Properties of validate_page_numbers (checked under SpecValidate)        *)
(***************************************************************************)
\* the integer an element of page_numbers stands for, if any
IntegerOf(num) ==
    IF num.type = "int" THEN [ok |-> TRUE, value |-> num.value] ELSE PyIntOf(num.chars)

\* the list is non-empty, every element is an integer in [1, max_pages] and
\* the integers are strictly ascending
ValidPageList ==
    /\ page_numbers # <<>>
    /\ \A x \in DOMAIN page_numbers :
          /\ IntegerOf(page_numbers[x]).ok
          /\ IntegerOf(page_numbers[x]).value >= 1
          /\ IntegerOf(page_numbers[x]).value <= max_pages
    /\ \A x \in 2..Len(page_numbers) :
          IntegerOf(page_numbers[x - 1]).value < IntegerOf(page_numbers[x]).value

\* C23: validate_page_numbers returns, and it accepts the list exactly when
\* the list is non-empty, every page is an integer in [1, max_pages] and the
\* pages are strictly ascending; a rejection carries no parsed numbers.
C23_AcceptsExactlyValidLists ==
    pc = "val_done" =>
        /\ result.raised = None
        /\ result.valid <=> ValidPageList
        /\ ~result.valid => result.parsed = None

RECURSIVE GroupedCount(_)
\* the number of chapters in the groups the walk has produced so far
GroupedCount(gs) == IF gs = <<>> THEN 0 ELSE Len(Head(gs)) + GroupedCount(Tail(gs))

\* C28: with n chapters and K files, n > K >= 1, the backward walk starts at
\* (current, remaining) = (n, K) and takes one step per group: after s steps
\* remaining = K - s, every group produced is a non-empty range of chapters
\* (so current has strictly decreased at each step, by the size of the
\* group), the two counters are 0 together, which happens after exactly K
\* steps, and then the K groups are returned.
C28_WalkTakesKSteps ==
    (Len(processed_chapters) > max_combined_files /\ max_combined_files >= 1
         /\ pc \in {"groups_walk", "groups_done"}) =>
        /\ Len(groups) + remaining = max_combined_files
        /\ \A x \in DOMAIN groups : Len(groups[x]) >= 1
        /\ current + GroupedCount(groups) = Len(processed_chapters)
        /\ current >= remaining
        /\ current = 0 <=> remaining = 0
        /\ pc = "groups_done" =>
              /\ current = 0 /\ remaining = 0
              /\ Len(groups) = max_combined_files
              /\ Len(formatted_groups) = max_combined_files

\* the end of a walk of three steps over more than three chapters
C28_Witness ==
    /\ pc = "groups_done"
    /\ max_combined_files = 3
    /\ Len(processed_chapters) > 3
    /\ Len(groups) = 3
    /\ current = 0
    /\ remaining = 0

(***************************************************************************)
(* Properties of process_chapters followed by optimize_chapter_groups      *)
(* (checked under SpecProcessGroups)                                       *)
(***************************************************************************)
\* the chapter list as it was handed to process_chapters
InputChapters == parse_chapter_locations(arg_starts, None, max_page, page_offset)

\* the chapter record carries the two fields process_chapters adds
Marked(ch) == "char_count" \in DOMAIN ch /\ "output_path" \in DOMAIN ch

\* the record has the fields of the input record, with their values
SameFields(ch, original) ==
    /\ DOMAIN original \subseteq DOMAIN ch
    /\ \A f \in DOMAIN original : ch[f] = original[f]

\* C30: once process_chapters has returned, the returned list is the input
\* list restricted to the chapters whose assembly succeeded, in the input's
\* order; those chapters carry char_count and output_path (with the values
\* process_chapter returned) and their other fields are the input's; a
\* chapter whose assembly failed is the input record, with no field added;
\* and the groups built from the returned list hold, in order, the numbers
\* of the successful chapters and no other.
C30_SuccessfulChaptersInOrder ==
    pc \in {"proc_done", "groups_start", "groups_walk", "groups_done"} =>
        /\ Len(chapters) = Len(InputChapters)
        /\ \A k \in DOMAIN chapters :
              LET r == process_chapter(InputChapters[k], text_dir, output_dir)
              IN /\ SameFields(chapters[k], InputChapters[k])
                 /\ IF r.success
                    THEN /\ DOMAIN chapters[k] =
                               DOMAIN InputChapters[k] \cup {"char_count", "output_path"}
                         /\ chapters[k].char_count = r.char_count
                         /\ chapters[k].output_path = r.output_path
                    ELSE DOMAIN chapters[k] = DOMAIN InputChapters[k]
        /\ processed_chapters = SelectSeq(chapters, Marked)
        /\ result.processed_chapters = processed_chapters
        /\ pc = "groups_done" =>
              Flatten(formatted_groups) =
                  LET good == SelectSeq(chapters, Marked)
                  IN [x \in DOMAIN good |-> good[x].number]

\* a run where a chapter fails between two that succeed, and the two are
\* grouped into one file
C30_Witness ==
    /\ pc = "groups_done"
    /\ Len(chapters) = 3
    /\ Marked(chapters[1])
    /\ ~Marked(chapters[2])
    /\ Marked(chapters[3])
    /\ Len(formatted_groups) = 1
    /\ formatted_groups[1].chapters = <<chapters[1].number, chapters[3].number>>

(***************************************************************************)
(* Properties of create_project_structure (checked under SpecProject)      *)
(***************************************************************************)
\* the names base_dir held when the call began
ExistingNames == {k \in DOMAIN fs_before : fs_before[k].kind # "absent"}

\* C24: whatever names exist already, create_project_structure ends by
\* returning a project directory whose name was free before the call, the
\* first free one of "Book", "Book (1)", "Book (2)", ..., created with its
\* images, text, chapters and combined subdirectories, and what base_dir
\* held under the other names is as it was.
C24_FreshProjectDirectory ==
    pc \in {"proj_done", "proj_raised"} =>
        /\ pc = "proj_done"
        /\ dirs.project \notin ExistingNames
        /\ \A k \in 0..(dirs.project - 1) : k \in ExistingNames
        /\ fs[dirs.project] = [kind |-> "dir", subdirs |-> ProjectSubdirs]
        /\ \A k \in DOMAIN fs : k # dirs.project => fs[k] = fs_before[k]

(***************************************************************************)
(* Properties of process_images_parallel (checked under SpecOcr)           *)
(***************************************************************************)
RECURSIVE Concat(_)
\* the batches, one after the other
Concat(bs) == IF bs = <<>> THEN <<>> ELSE Head(bs) \o Concat(Tail(bs))

\* the output path worker b is writing, if it is writing
Writing(b) == workers[b].writing

\* C27: once the batches are made, every image is in exactly one batch, no
\* two images (of one batch or of two) have the same output text path, and
\* so no two workers are writing the same output file at the same time.
C27_OneWriterPerOutputFile ==
    pc \in {"ocr_run", "ocr_done"} /\ has_tesseract =>
        /\ Concat(batches) = pairs
        /\ \A x \in DOMAIN pairs : pairs[x].image = x
        /\ Len(pairs) = Len(image_paths)
        /\ \A x, y \in DOMAIN pairs :
              x # y => pairs[x].output_path # pairs[y].output_path
        /\ \A a, b \in DOMAIN workers :
              (a # b /\ Writing(a) /\ Writing(b)) =>
                  batches[a][workers[a].pos].output_path #
                      batches[b][workers[b].pos].output_path

(***************************************************************************)
(* prompt_for_chapter_pages: properties                                    *)
(***************************************************************************)
\* non-empty, strictly ascending, within 1..maxp
ValidBookPages(pages, maxp) ==
    /\ pages # <<>>
    /\ \A x \in DOMAIN pages : pages[x] \in 1..maxp
    /\ \A x \in 2..Len(pages) : pages[x - 1] < pages[x]

\* C26: with a page offset > 0, when the operator has entered valid book
\* pages (ascending, within 1..max_page - page_offset) the prompt hands main
\* the PDF pages, book page + offset, as the chapter start pages.
C26_StartPagesAdjustedToPdfPages ==
    (/\ pc \in {"prompt_raised", "prompt_returned"}
     /\ page_offset > 0
     /\ ValidBookPages(int_pages, max_page - page_offset)) =>
        /\ pc = "prompt_returned"
        /\ chapter_pages = [x \in DOMAIN int_pages |-> int_pages[x] + page_offset]

(***************************************************************************)
(* main, steps 4 to 6: properties                                          *)
(***************************************************************************)
\* the lines of kind k that main has printed, in order
Printed(k) == SelectSeq(stdout, LAMBDA l : l.kind = k)

\* C25: the steps open in the fixed order (chapter files, combined files,
\* index, instructions, archive); an error is the last line printed and ends
\* the run with exit code 1; the archive exists only when process_chapters,
\* create_combined_files, create_index_file and create_instructions_file
\* have each reported success.
C25_FixedOrderAndEarlyExit ==
    /\ Printed("step") = SubSeq(StepLines, 1, Len(Printed("step")))
    /\ \A x \in DOMAIN stdout :
          stdout[x].kind = "error" =>
              x = Len(stdout) /\ pc = "main_exit" /\ exit_code = 1 /\ zip_path = None
    /\ (pc = "main_exit" /\ exit_code = 1) => Len(Printed("error")) = 1
    /\ zip_path # None =>
          /\ Printed("step") = StepLines
          /\ Printed("error") = <<>>
          /\ Len(Printed("message")) = 5
          /\ result.success
          /\ output_files # <<>>
          /\ index_path # None
          /\ instructions_path # None
          /\ pc = "main_exit"
          /\ exit_code = 0

\* a run that has made the archive of the bundles, the index and the
\* instructions
C25_Witness ==
    /\ pc = "main_exit"
    /\ exit_code = 0
    /\ zip_path # None
    /\ Len(files_to_include) = Len(output_files) + 2

\* the records parse_chapter_locations has returned to main
Derived ==
    parse_chapter_locations(chapter_pages, chapter_titles, main_last_chapter_end + 1,
                            page_offset)

\* a record of a chapter the operator has declared (not front or back matter)
Declared(ch) == ch.number \in 1..Len(chapter_pages)

\* C29: once the descriptions are attached, the record numbered k of a
\* declared chapter carries the k-th description, front and back matter
\* carry none, and the page bounds are those parse_chapter_locations gave.
C29_DescriptionOfItsChapter ==
    pc \notin {"main_step4", "main_describe"} =>
        \A x \in DOMAIN chapters :
            /\ IF Declared(chapters[x])
               THEN /\ "description" \in DOMAIN chapters[x]
                    /\ chapters[x].description = chapter_descriptions[chapters[x].number]
               ELSE "description" \notin DOMAIN chapters[x]
            /\ chapters[x].start_page = Derived[x].start_page
            /\ chapters[x].end_page = Derived[x].end_page
            /\ chapters[x].book_start_page = Derived[x].book_start_page
            /\ chapters[x].book_end_page = Derived[x].book_end_page

\* the positions at which the Partitioner and the Renderer run
Rendering ==
    pc \in {"groups_start", "groups_walk", "groups_done", "main_index",
            "main_instructions", "main_zip"}

\* C22: while optimize_chapter_groups, create_combined_files (and
\* create_combined_file in it), create_index_file and create_instructions_file
\* run, the chapter list keeps its records, their fields and its order.
C22_RenderingLeavesChapters ==
    [][Rendering => (processed_chapters' = processed_chapters /\ chapters' = chapters)]_vars

\* a run in which all of them have run on two chapters or more
C22_Witness ==
    /\ pc = "main_zip"
    /\ Len(processed_chapters) >= 2
    /\ Len(formatted_groups) < Len(processed_chapters)
    /\ instructions_path # None

=============================================================================
